---- MODULE Spec2Model ----
(***************************************************************************)
(* Polling cache of the Gethomepage Tool-Box (src/app.py, lines 828-1254,  *)
(* and src/gunicorn.conf.py): the shared cache _all_data_cache guarded by  *)
(* _cache_lock, the priming routine prime_and_start_cache_threads, the     *)
(* per-source refresh loop update_cache_in_background, gunicorn's          *)
(* on_starting hook and the cache readers get_counts / get_added.          *)
(*                                                                         *)
(* Threads take one step at a time.  A network call (state_fetcher,        *)
(* data_fetcher) is outstanding from the step that issues it to the step   *)
(* in which it returns or raises.                                          *)
(***************************************************************************)
EXTENDS Integers, FiniteSets, Sequences, TLC

(* ------------------------------ bounds --------------------------------- *)
\* how many environment events (a change of a backend's library state, a
\* failing network call) happen during a run
MaxEvents == 2
\* how many refreshes the loops start during a run
MaxRefreshes == 2

(* ------------------------- sources and values -------------------------- *)
\* get_sources(): the configured sources, in the order the list is built
configured_sources == <<"tautulli", "audiobookshelf">>

Sources == {configured_sources[i] : i \in 1..Len(configured_sources)}

\* the keys of source_map
source_map == {"tautulli", "jellystat", "audiobookshelf"}

\* cacheable_sources of prime_and_start_cache_threads
cacheable_sources == {s \in Sources : s \in source_map}

\* the sources on_starting knows how to prime
hook_sources == {"tautulli", "jellystat"}

\* a state fetcher's results: None on error, else a dict {section id: count}
None == "None"
\* a local variable that is not bound yet
Unset == "unset"
EmptySig == "{}"
Sig10 == "{lib1:10}"
Sig11 == "{lib1:11}"
Sigs == {EmptySig, Sig10, Sig11}

\* Python truthiness of a state fetcher's result
Truthy(state) == state # None /\ state # EmptySig

\* the value a data fetcher returns: the libraries' items and counts, each
\* tagged with the number of the data_fetcher call that produced them
Snap(n) == [items |-> n, counts |-> n]

\* dict.get(source) of an absent key
NoSnap == Snap(0)

\* the dict {} for the "data" and "timestamp" entries
EmptyData == [s \in Sources |-> NoSnap]
EmptyStamps == [s \in Sources |-> 0]

(* ------------------------------ threads -------------------------------- *)
NoThread == <<"none", "-", "-">>
Main == <<"main", "-", "-">>
Reader == <<"reader", "-", "-">>
LoopThread(l) == <<"loop", l[1], l[2]>>

\* a refresh loop is named by who started it and by its source_id
Origins == {"app", "gunicorn"}
LoopIds == Origins \X Sources

VARIABLES
    libState,            \* backend: the library state a state fetcher would see
    changes, failures,   \* environment budgets used so far
    fetchCount,          \* per source: data_fetcher calls issued so far
    refreshCalls,        \* per source: data_fetcher calls issued by refresh loops
    cacheData, cacheTs,  \* _all_data_cache["data"], _all_data_cache["timestamp"]
    lockHolder,          \* _cache_lock
    mainPc,              \* the main thread: import of app, then the server
    new_data_cache, new_timestamp_cache,   \* locals of prime_and_start_cache_threads
    wPc, initial_data,   \* prime_and_start_thread, one worker per source
    lPc, last_state, current_state, data,  \* update_cache_in_background
    hIdx, hook_data, hook_state,           \* on_starting
    rPc, rSource, rData, response,         \* a request handler
    unlockedAccess,      \* history: a cache access made without the lock
                         \* while another thread could access the cache
    repeated,            \* history, per loop: the latest poll fetched the
                         \* same state as the poll before it
    outcome,             \* history, per loop: how the latest finished poll ended
    refreshed,           \* history, per source: the snapshot of the latest
                         \* refresh a loop has completed (0: none yet)
    lateChange,          \* history: the latest change of a backend came
                         \* after the start-up was over
    primeRaised,         \* history, per source: the data fetcher raised in
                         \* prime_and_start_thread
    budget               \* how many environment events this run may have

envVars == <<libState, changes, failures, fetchCount, refreshCalls>>
cacheVars == <<cacheData, cacheTs, lockHolder>>
primeVars == <<new_data_cache, new_timestamp_cache, wPc, initial_data>>
loopVars == <<lPc, last_state, current_state, data>>
hookVars == <<hIdx, hook_data, hook_state>>
readerVars == <<rPc, rSource, rData, response>>
histVars == <<repeated, outcome, refreshed, lateChange, primeRaised>>
(* --------------------- mapping_manager.py: storage --------------------- *)
\* the processes that share the config directory
NumProcs == 2
Procs == 1..NumProcs
\* how many times the editor saves the mappings during a run
MaxSaves == 2

\* _mappings_cache = None
NoMappings == 0 - 1
\* the value of get_default_mappings(); the data of the n-th save is n
DefaultMappings == 0

VARIABLES
    mappings_file,       \* mappings.yaml: DefaultMappings while the file does
                         \* not exist, else the data of the latest save
    signal_file,         \* UPDATE_SIGNAL_FILE exists
    mappings_cache,      \* per process: _mappings_cache
    gPc, gRet,           \* per process: get_mappings and the value it returns
    sPc,                 \* save_mappings
    saved,               \* history: the save_mappings calls that returned True
    seen                 \* history, per process: the value of saved when the
                         \* latest get_mappings call began

mapVars == <<mappings_file, signal_file, mappings_cache, gPc, gRet, sPc,
             saved, seen>>

(* ------------------ mapping_manager.py: resolution --------------------- *)
\* how many times in a row a record is resolved
MaxCalls == 2

VARIABLES
    mapping_tree,        \* the mapping tree get_mappings() returns
    record,              \* the argument item_data: the record
    arg_source, arg_media_type, arg_sub_type,   \* the other arguments
    fn,                  \* the function the run calls
    results,             \* what the calls so far returned, or that they raised
    processed_items,     \* get_added: the processed items of the library
    looked_up,           \* history: the key the latest call looked up
    record0              \* history: the record before the first call

resVars == <<mapping_tree, record, arg_source, arg_media_type, arg_sub_type,
             fn, results, processed_items, looked_up, record0>>

(* ---------------------- app.py: the fetch_all adapters ----------------- *)
\* how many libraries a backend has
NumLibs == 3
Libraries == 1..NumLibs

VARIABLES
    fa_source,           \* the source whose data fetcher runs
    faPc,
    lib_fetch,           \* per library: its "recently added" request
    fa_result            \* what the data fetcher returned

faVars == <<fa_source, faPc, lib_fetch, fa_result>>

(* ------------------ app.py: the requests of a data fetcher ------------- *)
\* ThreadPoolExecutor(max_workers=10)
max_workers == 10
\* how many libraries the backend of the run has
PoolLibs == 11

VARIABLES
    pool_source,         \* the source whose data fetcher runs
    poolPc,
    list_in_flight,      \* requests in flight for the list of libraries
    taken,               \* the libraries that have been handed to a worker
    in_flight            \* per library: its requests in flight

poolVars == <<pool_source, poolPc, list_in_flight, taken, in_flight>>

(* --------------------------- app.py: get_added ------------------------- *)
\* how many items a cached library has at most
MaxItems == 2
\* the values of the query parameter 'count': -MaxCount..MaxCount
MaxCount == 3
\* the libraries of the cached snapshot
LibNames == {"Movies", "Shows"}

VARIABLES
    a_mappings,          \* the mapping tree get_mappings() returns
    a_source,            \* the query parameter 'source'
    cached,              \* the object _all_data_cache["data"][source]
    aPc,
    count, date_format,  \* the query parameters 'count' and 'dateFormat'
    data_copy,           \* which object data_copy is: the cached one, or
                         \* the copy that deepcopy made
    copied,              \* the object that deepcopy made
    processed_data       \* the response

addedVars == <<a_mappings, a_source, cached, aPc, count, date_format,
               data_copy, copied, processed_data>>

(* -------------------------- app.py: get_activity ----------------------- *)
\* how many sessions, and how many history items, a backend reports at most
MaxSessions == 2

VARIABLES
    act_source,          \* the query parameter 'source'
    sessions, history,   \* what the backend answers the two requests with
    actPc,
    playing_items,       \* the now-playing entries of the response
    last_played_items    \* the last-played entries of the response

activityVars == <<act_source, sessions, history, actPc, playing_items,
                  last_played_items>>

(* ------------------------------ editor.py ------------------------------ *)
VARIABLES
    config_files,        \* per file name: the content of the file in
                         \* CONFIG_PATH, or that there is no such file
    req_filename,        \* the path parameter of the latest request
    editor_status,       \* the status of its response
    opened               \* history: the files the handlers have opened, and
                         \* in which mode

editorVars == <<config_files, req_filename, editor_status, opened>>

\* the variables of the models above
baseVars == <<mapVars, resVars, faVars>>
\* the variables of the models of single requests
reqVars == <<poolVars, addedVars, activityVars, editorVars>>

\* what the cache's threads never write
extVars == <<budget, baseVars, reqVars>>
\* the variables of app.py's cache
coreVars == <<envVars, cacheVars, mainPc, primeVars, loopVars, hookVars,
              readerVars, unlockedAccess, histVars, budget>>
vars == <<envVars, cacheVars, mainPc, primeVars, loopVars, hookVars,
          readerVars, unlockedAccess, histVars, extVars>>

SourceOf(l) == l[2]

\* threads other than the main thread that can touch the cache
OthersRunning ==
    \/ \E l \in LoopIds : lPc[l] # "idle"
    \/ rPc # "idle"

\* the value a fetch of the library state can return now
StateResults(s) ==
    {libState[s]} \cup (IF changes + failures < budget THEN {None} ELSE {})

\* the refreshes started so far, over all sources
RECURSIVE SumOver(_, _)
SumOver(f, S) ==
    IF S = {} THEN 0
    ELSE LET x == CHOOSE y \in S : TRUE IN f[x] + SumOver(f, S \ {x})

TotalRefreshes == SumOver(refreshCalls, Sources)

(* ------------------------------- Init ---------------------------------- *)
\* app.py lines 829-833 and 1252-1253, before prime_and_start_cache_threads(),
\* in a run with the given number of environment events
CacheInit(events) ==
    /\ budget = events
    /\ libState = [s \in Sources |-> Sig10]
    /\ changes = 0
    /\ failures = 0
    /\ fetchCount = [s \in Sources |-> 0]
    /\ refreshCalls = [s \in Sources |-> 0]
    /\ cacheData = EmptyData
    /\ cacheTs = EmptyStamps
    /\ lockHolder = NoThread
    /\ mainPc = "prime"
    /\ new_data_cache = EmptyData
    /\ new_timestamp_cache = EmptyStamps
    /\ wPc = [s \in Sources |-> "idle"]
    /\ initial_data = [s \in Sources |-> 0]
    /\ lPc = [l \in LoopIds |-> "idle"]
    /\ last_state = [l \in LoopIds |-> None]
    /\ current_state = [l \in LoopIds |-> Unset]
    /\ repeated = [l \in LoopIds |-> FALSE]
    /\ outcome = [l \in LoopIds |-> "none"]
    /\ refreshed = [s \in Sources |-> 0]
    /\ lateChange = FALSE
    /\ primeRaised = [s \in Sources |-> FALSE]
    /\ data = [l \in LoopIds |-> 0]
    /\ hIdx = 0
    /\ hook_data = 0
    /\ hook_state = None
    /\ rPc = "idle"
    /\ rSource = "tautulli"
    /\ rData = NoSnap
    /\ response = [status |-> 0, body |-> 0]
    /\ unlockedAccess = FALSE

\* mapping_manager.py lines 13-14, with no mappings.yaml in the directory
MappingsInit ==
    /\ mappings_file = DefaultMappings
    /\ signal_file = FALSE
    /\ mappings_cache = [p \in Procs |-> NoMappings]
    /\ gPc = [p \in Procs |-> "idle"]
    /\ gRet = [p \in Procs |-> NoMappings]
    /\ sPc = "idle"
    /\ saved = 0
    /\ seen = [p \in Procs |-> 0]


(* ---------------------------- environment ------------------------------ *)
\* a library of the backend gains, loses or empties out
ChangeLib(s) ==
    /\ changes + failures < budget
    /\ \E sig \in Sigs \ {libState[s]} :
           libState' = [libState EXCEPT ![s] = sig]
    /\ changes' = changes + 1
    /\ lateChange' = (mainPc = "serving")
    /\ UNCHANGED <<failures, fetchCount, refreshCalls, cacheVars, mainPc,
                   primeVars, loopVars, hookVars, readerVars, unlockedAccess,
                   repeated, outcome, refreshed, primeRaised>>
    /\ UNCHANGED extVars

(* ------------------ prime_and_start_cache_threads ---------------------- *)
\* lines 1215-1226: fresh local dicts, one worker per cacheable source, each
\* of which calls its data_fetcher
PrimeStart ==
    /\ mainPc = "prime"
    /\ mainPc' = "join"
    /\ new_data_cache' = EmptyData
    /\ new_timestamp_cache' = EmptyStamps
    /\ wPc' = [s \in Sources |-> IF s \in cacheable_sources THEN "data" ELSE "done"]
    /\ fetchCount' = [s \in Sources |->
                        IF s \in cacheable_sources THEN fetchCount[s] + 1
                        ELSE fetchCount[s]]
    /\ initial_data' = [s \in Sources |-> fetchCount'[s]]
    /\ UNCHANGED <<libState, changes, failures, refreshCalls, cacheVars,
                   loopVars, hookVars, readerVars, unlockedAccess, histVars>>
    /\ UNCHANGED extVars

\* lines 1226-1236: data_fetcher returned; store it in the local dicts and
\* call the state_fetcher
WorkerDataOK(s) ==
    /\ wPc[s] = "data"
    /\ new_data_cache' = [new_data_cache EXCEPT ![s] = Snap(initial_data[s])]
    /\ new_timestamp_cache' = [new_timestamp_cache EXCEPT ![s] = initial_data[s]]
    /\ wPc' = [wPc EXCEPT ![s] = "state"]
    /\ initial_data' = [initial_data EXCEPT ![s] = 0]
    /\ UNCHANGED <<envVars, cacheVars, mainPc, loopVars,
                   hookVars, readerVars, unlockedAccess, histVars>>
    /\ UNCHANGED extVars

\* a variant of WorkerDataRaise that calls the data fetcher again
WorkerDataRaise_Retries(s) ==
    /\ wPc[s] = "data"
    /\ changes + failures < budget
    /\ failures' = failures + 1
    /\ fetchCount' = [fetchCount EXCEPT ![s] = @ + 1]
    /\ initial_data' = [initial_data EXCEPT ![s] = fetchCount'[s]]
    /\ primeRaised' = [primeRaised EXCEPT ![s] = TRUE]
    /\ UNCHANGED <<libState, changes, refreshCalls, cacheVars, mainPc,
                   new_data_cache, new_timestamp_cache, wPc, loopVars,
                   hookVars, readerVars, unlockedAccess, repeated, outcome,
                   refreshed, lateChange>>
    /\ UNCHANGED extVars

\* lines 1226, 1240-1241: data_fetcher raised; the worker logs and ends
WorkerDataRaise(s) ==
    /\ wPc[s] = "data"
    /\ changes + failures < budget
    /\ failures' = failures + 1
    /\ wPc' = [wPc EXCEPT ![s] = "done"]
    /\ initial_data' = [initial_data EXCEPT ![s] = 0]
    /\ primeRaised' = [primeRaised EXCEPT ![s] = TRUE]
    /\ UNCHANGED <<libState, changes, fetchCount, refreshCalls, cacheVars,
                   mainPc, new_data_cache, new_timestamp_cache,
                   loopVars, hookVars, readerVars, unlockedAccess,
                   repeated, outcome, refreshed, lateChange>>
    /\ UNCHANGED extVars

\* the effect of threading.Thread(target=update_cache_in_background,
\* args=(source_id, initial_state)).start() on the loop's variables
StartLoop(l, initial_state) ==
    /\ lPc' = [lPc EXCEPT ![l] = "sleep"]
    /\ last_state' = [last_state EXCEPT ![l] = initial_state]

\* lines 1236-1239: state_fetcher returned (None on error); start the loop
WorkerStateReturn(s) ==
    /\ wPc[s] = "state"
    /\ \E r \in StateResults(s) :
           /\ failures' = IF r = None THEN failures + 1 ELSE failures
           /\ StartLoop(<<"app", s>>, r)
    /\ wPc' = [wPc EXCEPT ![s] = "done"]
    /\ UNCHANGED <<libState, changes, fetchCount, refreshCalls, cacheVars,
                   mainPc, new_data_cache, new_timestamp_cache, initial_data,
                   current_state, data, hookVars, readerVars, unlockedAccess, histVars>>
    /\ UNCHANGED extVars

\* line 1244-1246: the executor's with block ends when every worker has
\* ended; then the lock is taken
PrimeJoin ==
    /\ mainPc = "join"
    /\ \A s \in Sources : wPc[s] = "done"
    /\ lockHolder = NoThread
    /\ lockHolder' = Main
    /\ mainPc' = "final"
    /\ UNCHANGED <<envVars, cacheData, cacheTs, primeVars, loopVars,
                   hookVars, readerVars, unlockedAccess, histVars>>
    /\ UNCHANGED extVars

\* lines 1247-1249: the whole-cache assignment, and the release of the lock
PrimeFinal ==
    /\ mainPc = "final"
    /\ cacheData' = new_data_cache
    /\ cacheTs' = new_timestamp_cache
    /\ unlockedAccess' = (unlockedAccess \/ (lockHolder # Main /\ OthersRunning))
    /\ lockHolder' = NoThread
    /\ mainPc' = "primed"
    /\ UNCHANGED <<histVars, envVars, primeVars, loopVars, hookVars, readerVars>>
    /\ UNCHANGED extVars

\* line 1256: the import of app is over; the server that imported it
\* starts to serve requests
Serve ==
    /\ mainPc = "primed"
    /\ mainPc' = "serving"
    /\ UNCHANGED <<envVars, cacheVars, primeVars, loopVars, hookVars,
                   readerVars, unlockedAccess, histVars>>
    /\ UNCHANGED extVars

(* ------------ prime_and_start_cache_threads(is_refresh=True) ----------- *)
\* how many manual refreshes a run has
MaxManualRefreshes == 1

\* the data_fetcher calls of the manual refreshes so far: those that neither
\* the priming nor a refresh loop has made
ManualRefreshes(s) == fetchCount[s] - refreshCalls[s] - 1

\* lines 1197-1226 with is_refresh=True: the local dicts are created empty
\* and every cacheable source's data_fetcher is called
RefreshStart ==
    /\ mainPc = "serving"
    /\ rPc = "idle"
    /\ \A s \in cacheable_sources : ManualRefreshes(s) < MaxManualRefreshes
    /\ mainPc' = "join"
    /\ new_data_cache' = EmptyData
    /\ new_timestamp_cache' = EmptyStamps
    /\ wPc' = [s \in Sources |-> IF s \in cacheable_sources THEN "rdata" ELSE "done"]
    /\ fetchCount' = [s \in Sources |->
                        IF s \in cacheable_sources THEN fetchCount[s] + 1
                        ELSE fetchCount[s]]
    /\ initial_data' = [s \in Sources |-> fetchCount'[s]]
    /\ UNCHANGED <<libState, changes, failures, refreshCalls, cacheVars,
                   loopVars, hookVars, readerVars, unlockedAccess, histVars>>
    /\ UNCHANGED extVars

\* lines 1226-1233: data_fetcher returned; it is stored in the local dicts
\* and the worker returns without starting a loop
RefreshDataOK(s) ==
    /\ wPc[s] = "rdata"
    /\ new_data_cache' = [new_data_cache EXCEPT ![s] = Snap(initial_data[s])]
    /\ new_timestamp_cache' = [new_timestamp_cache EXCEPT ![s] = initial_data[s]]
    /\ wPc' = [wPc EXCEPT ![s] = "done"]
    /\ initial_data' = [initial_data EXCEPT ![s] = 0]
    /\ UNCHANGED <<envVars, cacheVars, mainPc, loopVars,
                   hookVars, readerVars, unlockedAccess, histVars>>
    /\ UNCHANGED extVars

\* lines 1226, 1240-1241: data_fetcher raised; the worker logs and ends
RefreshDataRaise(s) ==
    /\ wPc[s] = "rdata"
    /\ changes + failures < budget
    /\ failures' = failures + 1
    /\ wPc' = [wPc EXCEPT ![s] = "done"]
    /\ initial_data' = [initial_data EXCEPT ![s] = 0]
    /\ UNCHANGED <<libState, changes, fetchCount, refreshCalls, cacheVars,
                   mainPc, new_data_cache, new_timestamp_cache,
                   loopVars, hookVars, readerVars, unlockedAccess, histVars>>
    /\ UNCHANGED extVars

(* -------------------- update_cache_in_background ----------------------- *)
\* a variant of ChangeDetected that forgets the comparison with last_state
ChangeDetected_Always(cur, last) == Truthy(cur)

\* line 1058: the condition under which a poll refreshes
ChangeDetected(cur, last) == Truthy(cur) /\ cur # last

\* lines 1055-1056: the sleep is over, the state_fetcher is called
LoopPoll(l) ==
    /\ lPc[l] = "sleep"
    /\ lPc' = [lPc EXCEPT ![l] = "state"]
    /\ UNCHANGED <<envVars, cacheVars, mainPc, primeVars, last_state,
                   current_state, data, hookVars, readerVars, unlockedAccess, histVars>>
    /\ UNCHANGED extVars

\* lines 1056-1061: the state_fetcher returned; on a change the data_fetcher
\* is called, else the loop sleeps again
LoopStateReturn(l) ==
    /\ lPc[l] = "state"
    /\ \E r \in StateResults(SourceOf(l)) :
        /\ failures' = IF r = None THEN failures + 1 ELSE failures
        /\ current_state' = [current_state EXCEPT ![l] = r]
        /\ IF ChangeDetected(r, last_state[l])
           THEN /\ TotalRefreshes < MaxRefreshes
                /\ fetchCount' = [fetchCount EXCEPT ![SourceOf(l)] = @ + 1]
                /\ refreshCalls' = [refreshCalls EXCEPT ![SourceOf(l)] = @ + 1]
                /\ data' = [data EXCEPT ![l] = fetchCount'[SourceOf(l)]]
                /\ lPc' = [lPc EXCEPT ![l] = "data"]
                /\ UNCHANGED outcome
           ELSE /\ lPc' = [lPc EXCEPT ![l] = "sleep"]
                /\ outcome' = [outcome EXCEPT ![l] = "skip"]
                /\ UNCHANGED <<fetchCount, refreshCalls, data>>
    /\ repeated' = [repeated EXCEPT ![l] = (current_state'[l] = current_state[l])]
    /\ UNCHANGED <<libState, changes, cacheVars, mainPc, primeVars,
                   last_state, hookVars, readerVars, unlockedAccess,
                   refreshed, lateChange, primeRaised>>
    /\ UNCHANGED extVars

\* line 1061: data_fetcher returned; the lock is requested
LoopDataOK(l) ==
    /\ lPc[l] = "data"
    /\ lPc' = [lPc EXCEPT ![l] = "lock"]
    /\ UNCHANGED <<envVars, cacheVars, mainPc, primeVars, last_state,
                   current_state, data, hookVars, readerVars, unlockedAccess,
                   histVars>>
    /\ UNCHANGED extVars

\* a variant of LoopDataRaise in which last_state is assigned before the
\* data fetcher is called
LoopDataRaise_RecordsState(l) ==
    /\ lPc[l] = "data"
    /\ changes + failures < budget
    /\ failures' = failures + 1
    /\ lPc' = [lPc EXCEPT ![l] = "sleep"]
    /\ data' = [data EXCEPT ![l] = 0]
    /\ last_state' = [last_state EXCEPT ![l] = current_state[l]]
    /\ outcome' = [outcome EXCEPT ![l] = "failed"]
    /\ UNCHANGED <<libState, changes, fetchCount, refreshCalls, cacheVars,
                   mainPc, primeVars, current_state, hookVars, readerVars,
                   unlockedAccess, repeated, refreshed, lateChange,
                   primeRaised>>
    /\ UNCHANGED extVars

\* lines 1061, 1067-1068: data_fetcher raised; log and sleep again
LoopDataRaise(l) ==
    /\ lPc[l] = "data"
    /\ changes + failures < budget
    /\ failures' = failures + 1
    /\ lPc' = [lPc EXCEPT ![l] = "sleep"]
    /\ data' = [data EXCEPT ![l] = 0]
    /\ outcome' = [outcome EXCEPT ![l] = "failed"]
    /\ UNCHANGED <<libState, changes, fetchCount, refreshCalls, cacheVars,
                   mainPc, primeVars, last_state, current_state,
                   hookVars, readerVars, unlockedAccess, repeated,
                   refreshed, lateChange, primeRaised>>
    /\ UNCHANGED extVars

\* a variant of StoreSnapshot that updates the cached entry in place, the
\* items first
StoreSnapshot_ItemsOnly(cache, s, d) ==
    [cache EXCEPT ![s] = [items |-> d.items, counts |-> @.counts]]

\* line 1063: the assignment _all_data_cache["data"][source_id] = data
StoreSnapshot(cache, s, d) == [cache EXCEPT ![s] = d]

\* lines 1062-1063: the lock is taken and the snapshot is stored
LoopStore(l) ==
    /\ lPc[l] = "lock"
    /\ lockHolder = NoThread
    /\ lockHolder' = LoopThread(l)
    /\ cacheData' = StoreSnapshot(cacheData, SourceOf(l), Snap(data[l]))
    /\ unlockedAccess' = (unlockedAccess \/ lockHolder' # LoopThread(l))
    /\ lPc' = [lPc EXCEPT ![l] = "stamp"]
    /\ UNCHANGED <<envVars, cacheTs, mainPc, primeVars, last_state,
                   current_state, data, hookVars, readerVars, histVars>>
    /\ UNCHANGED extVars

\* a variant of LoopStamp that does not release the lock
LoopStamp_KeepsLock(l) ==
    /\ lPc[l] = "stamp"
    /\ cacheTs' = [cacheTs EXCEPT ![SourceOf(l)] = data[l]]
    /\ last_state' = [last_state EXCEPT ![l] = current_state[l]]
    /\ lPc' = [lPc EXCEPT ![l] = "sleep"]
    /\ data' = [data EXCEPT ![l] = 0]
    /\ outcome' = [outcome EXCEPT ![l] = "refreshed"]
    /\ refreshed' = [refreshed EXCEPT ![SourceOf(l)] = data[l]]
    /\ UNCHANGED <<envVars, cacheData, lockHolder, mainPc, primeVars,
                   current_state, hookVars, readerVars, unlockedAccess,
                   repeated, lateChange, primeRaised>>
    /\ UNCHANGED extVars

\* lines 1064-1066: the timestamp is stored, the lock released and the
\* signature recorded
LoopStamp(l) ==
    /\ lPc[l] = "stamp"
    /\ cacheTs' = [cacheTs EXCEPT ![SourceOf(l)] = data[l]]
    /\ unlockedAccess' = (unlockedAccess \/ lockHolder # LoopThread(l))
    /\ lockHolder' = NoThread
    /\ last_state' = [last_state EXCEPT ![l] = current_state[l]]
    /\ lPc' = [lPc EXCEPT ![l] = "sleep"]
    /\ data' = [data EXCEPT ![l] = 0]
    /\ outcome' = [outcome EXCEPT ![l] = "refreshed"]
    /\ refreshed' = [refreshed EXCEPT ![SourceOf(l)] = data[l]]
    /\ UNCHANGED <<envVars, cacheData, mainPc, primeVars, current_state,
                   hookVars, readerVars, repeated, lateChange, primeRaised>>
    /\ UNCHANGED extVars

(* ----------------------- gunicorn: on_starting ------------------------- *)
\* gunicorn.conf.py line 26, after "from app import ..." has run app.py
HookResetData ==
    /\ mainPc = "primed"
    /\ cacheData' = EmptyData
    /\ unlockedAccess' = (unlockedAccess \/ (lockHolder # Main /\ OthersRunning))
    /\ mainPc' = "h27"
    /\ UNCHANGED <<histVars, envVars, cacheTs, lockHolder, primeVars, loopVars,
                   hookVars, readerVars>>
    /\ UNCHANGED extVars

\* gunicorn.conf.py lines 27-48
HookResetStamps ==
    /\ mainPc = "h27"
    /\ cacheTs' = EmptyStamps
    /\ unlockedAccess' = (unlockedAccess \/ (lockHolder # Main /\ OthersRunning))
    /\ hIdx' = 1
    /\ mainPc' = "hnext"
    /\ UNCHANGED <<histVars, envVars, cacheData, lockHolder, primeVars, loopVars,
                   hook_data, hook_state, readerVars>>
    /\ UNCHANGED extVars

\* gunicorn.conf.py lines 48-56: the next source is one the hook can prime;
\* its data fetcher is called
HookFetch ==
    /\ mainPc = "hnext"
    /\ hIdx <= Len(configured_sources)
    /\ configured_sources[hIdx] \in hook_sources
    /\ fetchCount' = [fetchCount EXCEPT ![configured_sources[hIdx]] = @ + 1]
    /\ hook_data' = fetchCount'[configured_sources[hIdx]]
    /\ mainPc' = "hdata"
    /\ UNCHANGED <<libState, changes, failures, refreshCalls, cacheVars,
                   primeVars, loopVars, hIdx, hook_state, readerVars,
                   unlockedAccess, histVars>>
    /\ UNCHANGED extVars

\* gunicorn.conf.py lines 58-60: any other source is skipped with a warning
HookSkip ==
    /\ mainPc = "hnext"
    /\ hIdx <= Len(configured_sources)
    /\ configured_sources[hIdx] \notin hook_sources
    /\ hIdx' = hIdx + 1
    /\ UNCHANGED <<envVars, cacheVars, mainPc, primeVars, loopVars,
                   hook_data, hook_state, readerVars, unlockedAccess, histVars>>
    /\ UNCHANGED extVars

\* gunicorn.conf.py lines 53-54: the data fetcher returned; the state
\* fetcher is called
HookDataOK ==
    /\ mainPc = "hdata"
    /\ mainPc' = "hstate"
    /\ UNCHANGED <<envVars, cacheVars, primeVars, loopVars, hookVars,
                   readerVars, unlockedAccess, histVars>>
    /\ UNCHANGED extVars

\* gunicorn.conf.py lines 53, 73-75: the data fetcher raised; next source
HookDataRaise ==
    /\ mainPc = "hdata"
    /\ changes + failures < budget
    /\ failures' = failures + 1
    /\ hIdx' = hIdx + 1
    /\ hook_data' = 0
    /\ mainPc' = "hnext"
    /\ UNCHANGED <<libState, changes, fetchCount, refreshCalls, cacheVars,
                   primeVars, loopVars, hook_state, readerVars,
                   unlockedAccess, histVars>>
    /\ UNCHANGED extVars

\* gunicorn.conf.py line 54: the state fetcher returned (None on error)
HookStateReturn ==
    /\ mainPc = "hstate"
    /\ \E r \in StateResults(configured_sources[hIdx]) :
           /\ failures' = IF r = None THEN failures + 1 ELSE failures
           /\ hook_state' = r
    /\ mainPc' = "h62"
    /\ UNCHANGED <<libState, changes, fetchCount, refreshCalls, cacheVars,
                   primeVars, loopVars, hIdx, hook_data, readerVars,
                   unlockedAccess, histVars>>
    /\ UNCHANGED extVars

\* gunicorn.conf.py line 62: the snapshot is stored, without the lock
HookStore ==
    /\ mainPc = "h62"
    /\ cacheData' = StoreSnapshot(cacheData, configured_sources[hIdx],
                                  Snap(hook_data))
    /\ unlockedAccess' = (unlockedAccess \/ (lockHolder # Main /\ OthersRunning))
    /\ mainPc' = "h63"
    /\ UNCHANGED <<histVars, envVars, cacheTs, lockHolder, primeVars, loopVars,
                   hookVars, readerVars>>
    /\ UNCHANGED extVars

\* gunicorn.conf.py lines 63-72: the timestamp is stored, without the lock,
\* and a refresh loop is started unless the state fetcher failed
HookStamp ==
    /\ mainPc = "h63"
    /\ cacheTs' = [cacheTs EXCEPT ![configured_sources[hIdx]] = hook_data]
    /\ unlockedAccess' = (unlockedAccess \/ (lockHolder # Main /\ OthersRunning))
    /\ IF hook_state # None
       THEN StartLoop(<<"gunicorn", configured_sources[hIdx]>>, hook_state)
       ELSE UNCHANGED <<lPc, last_state>>
    /\ hIdx' = hIdx + 1
    /\ hook_data' = 0
    /\ hook_state' = None
    /\ mainPc' = "hnext"
    /\ UNCHANGED <<envVars, cacheData, lockHolder, primeVars, current_state,
                   data, readerVars, histVars>>
    /\ UNCHANGED extVars

\* gunicorn.conf.py line 48: the for loop is over, the hook returns and the
\* server goes on to serve requests
HookDone ==
    /\ mainPc = "hnext"
    /\ hIdx > Len(configured_sources)
    /\ mainPc' = "serving"
    /\ UNCHANGED <<envVars, cacheVars, primeVars, loopVars, hookVars,
                   readerVars, unlockedAccess, histVars>>
    /\ UNCHANGED extVars

(* ---------------------- get_counts and get_added ----------------------- *)
\* app.py lines 1098-1102 and 1156-1162: a request for a source arrives and
\* its handler takes the lock (the two handlers share this code)
ReaderLock(src) ==
    /\ mainPc = "serving"
    /\ rPc = "idle"
    /\ lockHolder = NoThread
    /\ lockHolder' = Reader
    /\ rSource' = src
    /\ rPc' = "locked"
    /\ UNCHANGED <<envVars, cacheData, cacheTs, mainPc, primeVars, loopVars,
                   hookVars, rData, response, unlockedAccess, histVars>>
    /\ UNCHANGED extVars

\* the values of the query parameter 'source': a configured source, a source
\* that is not configured, or none (request.args.get answers None)
SourceParams == Sources \cup {"jellystat", ""}

\* app.py lines 1098-1100 and 1156-1160: a request without a source
ReaderNoSource ==
    /\ mainPc = "serving"
    /\ rPc = "idle"
    /\ rSource' = ""
    /\ response' = [status |-> 400, body |-> 0]
    /\ rPc' = "sent"
    /\ UNCHANGED <<envVars, cacheVars, mainPc, primeVars, loopVars,
                   hookVars, rData, unlockedAccess, histVars>>
    /\ UNCHANGED extVars

\* _all_data_cache.get("data", {}).get(source)
CacheGet(cache, src) == IF src \in DOMAIN cache THEN cache[src] ELSE NoSnap

\* app.py lines 1102-1103 and 1162-1163: the handler takes its reference to
\* the cached snapshot and releases the lock
ReaderRead ==
    /\ rPc = "locked"
    /\ rData' = CacheGet(cacheData, rSource)
    /\ unlockedAccess' = (unlockedAccess \/ lockHolder # Reader)
    /\ lockHolder' = NoThread
    /\ rPc' = "got"
    /\ UNCHANGED <<histVars, envVars, cacheData, cacheTs, mainPc, primeVars, loopVars,
                   hookVars, rSource, response>>
    /\ UNCHANGED extVars

\* app.py lines 1105-1112: the answer of get_counts
CountsAnswer(snapshot) ==
    IF snapshot = NoSnap THEN [status |-> 503, body |-> 0]
    ELSE [status |-> 200, body |-> snapshot.counts]

\* app.py lines 1165-1195: the answer of get_added
AddedAnswer(snapshot) ==
    IF snapshot = NoSnap THEN [status |-> 503, body |-> 0]
    ELSE [status |-> 200, body |-> snapshot.items]

GetCountsRespond ==
    /\ rPc = "got"
    /\ response' = CountsAnswer(rData)
    /\ rData' = NoSnap
    /\ rPc' = "sent"
    /\ UNCHANGED <<envVars, cacheVars, mainPc, primeVars, loopVars,
                   hookVars, rSource, unlockedAccess, histVars>>
    /\ UNCHANGED extVars

GetAddedRespond ==
    /\ rPc = "got"
    /\ response' = AddedAnswer(rData)
    /\ rData' = NoSnap
    /\ rPc' = "sent"
    /\ UNCHANGED <<envVars, cacheVars, mainPc, primeVars, loopVars,
                   hookVars, rSource, unlockedAccess, histVars>>
    /\ UNCHANGED extVars

\* the response is sent and the handler's locals are gone
ReaderDone ==
    /\ rPc = "sent"
    /\ rPc' = "idle"
    /\ rSource' = "tautulli"
    /\ response' = [status |-> 0, body |-> 0]
    /\ UNCHANGED <<envVars, cacheVars, mainPc, primeVars, loopVars,
                   hookVars, rData, unlockedAccess, histVars>>
    /\ UNCHANGED extVars

(* ------------- mapping_manager.py: Python values and strings ----------- *)
\* A Python str is a sequence of symbols; a symbol is one of the characters
\* { } [ ] - _ and the blank, or a maximal run of letters (a word).
Str(w) == <<w>>
EmptyStr == <<>>

\* Python values: a str, None or a dict whose keys are strs
PStr(s) == [kind |-> "str", v |-> s]
PNone == [kind |-> "none", v |-> <<>>]
PDict(d) == [kind |-> "dict", v |-> d]
EmptyDict == <<>>

\* dict.get(key, default) and dict.get(key)
Get(d, key, default) == IF key \in DOMAIN d THEN d[key] ELSE default
GetOrNone(d, key) == Get(d, key, PNone)

\* bool(value)
IsTruthy(value) ==
    CASE value.kind = "none" -> FALSE
      [] value.kind = "str" -> value.v # EmptyStr
      [] OTHER -> DOMAIN value.v # {}

\* x or y
Or(x, y) == IF IsTruthy(x) THEN x ELSE y

\* a call that raised, and one that returned a value
Raised == [raised |-> TRUE, value |-> PNone]
Returned(value) == [raised |-> FALSE, value |-> value]

\* the first position at or after i where the string has the symbol c, or
\* Len(s) + 1
RECURSIVE Find(_, _, _)
Find(s, c, i) ==
    IF i > Len(s) THEN Len(s) + 1
    ELSE IF s[i] = c THEN i
    ELSE Find(s, c, i + 1)

\* str(value) as format() renders it with an empty format spec
Render(value) ==
    CASE value.kind = "str" -> value.v
      [] value.kind = "none" -> Str("None")
      [] OTHER -> <<"{", "...", "}">>

\* s.strip(' -')
strip(s) ==
    LET kept == {i \in 1..Len(s) : s[i] \notin {" ", "-"}}
        first == CHOOSE i \in kept : \A j \in kept : i <= j
        last == CHOOSE i \in kept : \A j \in kept : j <= i
    IN  IF kept = {} THEN <<>> ELSE SubSeq(s, first, last)

\* obj[name] for a str name, as the format machinery's getitem
GetItem(obj, name) ==
    IF obj.kind = "dict" /\ name \in DOMAIN obj.v
    THEN Returned(obj.v[name])
    ELSE Raised

\* apply_mapping's SafeDict.__missing__ (lines 248-250)
SafeDictMissing(self, key) == PStr(EmptyStr)

\* key.replace(']', '').split('[')
RECURSIVE RemoveAll(_, _)
RemoveAll(s, c) ==
    IF s = <<>> THEN <<>>
    ELSE IF Head(s) = c THEN RemoveAll(Tail(s), c)
    ELSE <<Head(s)>> \o RemoveAll(Tail(s), c)

RECURSIVE Split(_, _)
Split(s, c) ==
    LET k == Find(s, c, 1)
    IN  IF k > Len(s) THEN <<s>>
        ELSE <<SubSeq(s, 1, k - 1)>> \o Split(SubSeq(s, k + 1, Len(s)), c)

\* the loop of lines 301-308 over the parts of a nested key
RECURSIVE WalkParts(_, _)
WalkParts(val, parts) ==
    IF parts = <<>>
    THEN (IF val.kind # "dict" THEN val ELSE PStr(EmptyStr))
    ELSE IF val.kind = "dict"
         THEN LET next == GetOrNone(val.v, Head(parts))
              IN  IF next.kind = "none" THEN PStr(EmptyStr)
                  ELSE WalkParts(next, Tail(parts))
         ELSE PStr(EmptyStr)

\* apply_activity_mapping's SafeDict.__missing__ (lines 297-309)
SafeDictMissingNested(self, key) ==
    IF Find(key, "[", 1) <= Len(key) /\ key # <<>> /\ key[Len(key)] = "]"
    THEN WalkParts(PDict(self), Split(RemoveAll(key, "]"), "["))
    ELSE PStr(EmptyStr)

\* which SafeDict a function uses
SafeDictLookup(caller, self, key) ==
    IF key \in DOMAIN self THEN self[key]
    ELSE IF caller = "apply_mapping" THEN SafeDictMissing(self, key)
    ELSE SafeDictMissingNested(self, key)

\* str.format_map, the field: where the replacement field that begins at
\* position j ends (the position of its closing brace), or 0 if the field
\* is malformed
RECURSIVE FieldEnd(_, _)
FieldEnd(T, j) ==
    IF j > Len(T) THEN 0
    ELSE CASE T[j] = "{" -> 0
           [] T[j] = "}" -> j
           [] T[j] = "[" ->
                LET k == Find(T, "]", j + 1)
                IN  IF k > Len(T) THEN 0 ELSE FieldEnd(T, k + 1)
           [] OTHER -> FieldEnd(T, j + 1)

\* str.format_map, the accessors [name] that follow the first name
RECURSIVE Accessors(_, _, _)
Accessors(F, p, obj) ==
    IF p > Len(F) THEN Returned(obj)
    ELSE IF F[p] # "[" THEN Raised
    ELSE LET k == Find(F, "]", p + 1)
             name == SubSeq(F, p + 1, k - 1)
         IN  IF k > Len(F) \/ name = <<>> THEN Raised
             ELSE LET item == GetItem(obj, name)
                  IN  IF item.raised THEN Raised
                      ELSE Accessors(F, k + 1, item.value)

\* str.format_map, the value of the replacement field named F
GetField(caller, F, self) ==
    LET p == Find(F, "[", 1)
        first == SubSeq(F, 1, p - 1)
    IN  IF first = <<>> THEN Raised
        ELSE Accessors(F, p, SafeDictLookup(caller, self, first))

\* template.format_map(SafeDict(item_data)), from position i on
RECURSIVE FormatFrom(_, _, _, _)
FormatFrom(caller, T, i, self) ==
    IF i > Len(T) THEN Returned(<<>>)
    ELSE IF T[i] \in {"{", "}"} /\ i < Len(T) /\ T[i + 1] = T[i]
    THEN LET rest == FormatFrom(caller, T, i + 2, self)
         IN  IF rest.raised THEN Raised
             ELSE Returned(<<T[i]>> \o rest.value)
    ELSE IF T[i] = "}" THEN Raised
    ELSE IF T[i] = "{"
    THEN LET e == FieldEnd(T, i + 1)
         IN  IF e = 0 THEN Raised
             ELSE LET field == GetField(caller, SubSeq(T, i + 1, e - 1), self)
                      rest == FormatFrom(caller, T, e + 1, self)
                  IN  IF field.raised \/ rest.raised THEN Raised
                      ELSE Returned(Render(field.value) \o rest.value)
    ELSE LET rest == FormatFrom(caller, T, i + 1, self)
         IN  IF rest.raised THEN Raised
             ELSE Returned(<<T[i]>> \o rest.value)

format_map(caller, T, self) == FormatFrom(caller, T, 1, self)

\* s.replace(old, new)
RECURSIVE Replace(_, _, _)
Replace(s, old, new) ==
    IF Len(s) < Len(old) \/ old = <<>> THEN s
    ELSE IF SubSeq(s, 1, Len(old)) = old
         THEN new \o Replace(SubSeq(s, Len(old) + 1, Len(s)), old, new)
         ELSE <<Head(s)>> \o Replace(Tail(s), old, new)

\* d.get(field, {}) for a field of the mapping tree
Branch(d, field) == IF field \in DOMAIN d THEN d[field] ELSE EmptyDict

\* d.get(key) for a key that is a Python value; None and {} are both falsy,
\* and both are the empty mapping here
Lookup(d, key) ==
    IF key.kind = "str" /\ key.v \in DOMAIN d THEN d[key.v] ELSE EmptyDict

\* lines 244-246 and 291-293: the custom fields are written into item_data
RECURSIVE Inject(_, _)
Inject(item_data, custom_fields) ==
    IF custom_fields = <<>> THEN item_data
    ELSE LET field == Head(custom_fields)
         IN  Inject((field.name :> field.value) @@ item_data,
                    Tail(custom_fields))

WithCustomFields(item_data, type_mapping) ==
    IF "custom_fields" \in DOMAIN type_mapping
    THEN Inject(item_data, type_mapping.custom_fields)
    ELSE item_data

\* lines 252-255 and 311-316: every template is formatted and stripped
Resolve(caller, type_mapping, item_data) ==
    LET templates == type_mapping.templates
        outs == [k \in DOMAIN templates |->
                    format_map(caller, templates[k], item_data)]
    IN  IF \E k \in DOMAIN templates : outs[k].raised THEN Raised
        ELSE Returned(PDict([k \in DOMAIN templates |->
                                PStr(strip(outs[k].value))]))

\* "not type_mapping or 'templates' not in type_mapping"
NoTemplates(type_mapping) ==
    DOMAIN type_mapping = {} \/ "templates" \notin DOMAIN type_mapping

\* apply_mapping (lines 225-257): what it returns or that it raised, the
\* record as the call leaves it, and the key it looked up
apply_mapping(mappings, item_data, source, media_type) ==
    LET source_mapping == Branch(mappings, source)
        type_mapping == Lookup(Branch(source_mapping, "recently_added"),
                               media_type)
        item1 == WithCustomFields(item_data, type_mapping)
    IN  IF media_type.kind = "dict"
        THEN [result |-> Raised, item |-> item_data, key |-> EmptyStr]
        ELSE IF NoTemplates(type_mapping)
        THEN [result |-> Returned(PDict(Str("title") :>
                            Get(item_data, Str("title"),
                                Get(item_data, Str("name"), PStr(<<"Unknown", " ", "Title">>))))),
              item |-> item_data,
              key |-> Render(media_type)]
        ELSE [result |-> Resolve("apply_mapping", type_mapping, item1),
              item |-> item1,
              key |-> Render(media_type)]

\* lines 265-269: the media type of an activity record
ActivityMediaType_AnySource(item_data, source) ==
    LET media_type == Or(GetOrNone(item_data, <<"media", "_", "type">>),
                         GetOrNone(item_data, Str("Type")))
    IN  IF ~IsTruthy(media_type)
        THEN (IF IsTruthy(GetOrNone(item_data, Str("SeriesName")))
              THEN PStr(Str("Episode")) ELSE PStr(Str("Movie")))
        ELSE media_type

ActivityMediaType(item_data, source) ==
    LET media_type == Or(GetOrNone(item_data, <<"media", "_", "type">>),
                         GetOrNone(item_data, Str("Type")))
    IN  IF source = "jellystat" /\ ~IsTruthy(media_type)
        THEN (IF IsTruthy(GetOrNone(item_data, Str("SeriesName")))
              THEN PStr(Str("Episode")) ELSE PStr(Str("Movie")))
        ELSE media_type

\* lines 274-278: the mapping key
MappingKey(sub_type, media_type) ==
    IF sub_type = Str("activity")
    THEN <<"activity", "_">> \o Render(media_type)
    ELSE Replace(sub_type, <<"_", "activity">>, <<"_">> \o Render(media_type))

\* apply_activity_mapping (lines 259-317)
apply_activity_mapping(mappings, item_data, source, sub_type) ==
    LET mapping_key == MappingKey(sub_type, ActivityMediaType(item_data, source))
        type_mapping == Lookup(Branch(Branch(mappings, source), "user_activity"),
                               PStr(mapping_key))
        item1 == WithCustomFields(item_data, type_mapping)
    IN  IF NoTemplates(type_mapping)
        THEN [result |-> Returned(PDict(
                  (Str("title") :> Get(item_data, Str("LastWatched"),
                                  Get(item_data, Str("Name"),
                                      Get(item_data, Str("title"), PStr(EmptyStr)))))
                  @@ (Str("user") :> Get(item_data, Str("UserName"),
                                    Get(item_data, Str("user"), PStr(EmptyStr)))))),
              item |-> item_data,
              key |-> mapping_key]
        ELSE [result |-> Resolve("apply_activity_mapping", type_mapping, item1),
              item |-> item1,
              key |-> mapping_key]

(* --------------- mapping_manager.py: the calls of a run ---------------- *)
\* no record is being resolved
ResolveIdle ==
    /\ mapping_tree = EmptyDict
    /\ record = EmptyDict
    /\ record0 = EmptyDict
    /\ arg_source = "jellystat"
    /\ arg_media_type = PStr(EmptyStr)
    /\ arg_sub_type = Str("activity")
    /\ fn = "none"
    /\ results = <<>>
    /\ processed_items = <<>>
    /\ looked_up = EmptyStr

\* a caller resolves the record with apply_mapping
CallApplyMapping ==
    /\ fn = "apply_mapping"
    /\ Len(results) < MaxCalls
    /\ LET r == apply_mapping(mapping_tree, record, arg_source, arg_media_type)
       IN  /\ results' = Append(results, r.result)
           /\ record' = r.item
           /\ looked_up' = r.key
    /\ UNCHANGED <<mapping_tree, arg_source, arg_media_type, arg_sub_type, fn,
                   processed_items, record0>>
    /\ UNCHANGED <<coreVars, mapVars, faVars, reqVars>>

\* a caller resolves the record with apply_activity_mapping
CallApplyActivityMapping ==
    /\ fn = "apply_activity_mapping"
    /\ Len(results) < MaxCalls
    /\ LET r == apply_activity_mapping(mapping_tree, record, arg_source,
                                       arg_sub_type)
       IN  /\ results' = Append(results, r.result)
           /\ record' = r.item
           /\ looked_up' = r.key
    /\ UNCHANGED <<mapping_tree, arg_source, arg_media_type, arg_sub_type, fn,
                   processed_items, record0>>
    /\ UNCHANGED <<coreVars, mapVars, faVars, reqVars>>

(* ---------------------- app.py: the data fetchers --------------------- *)
\* no data fetcher has been called
FetchAllInit ==
    /\ fa_source = "tautulli"
    /\ faPc = "idle"
    /\ lib_fetch = [l \in Libraries |-> "pending"]
    /\ fa_result = [raised |-> FALSE, value |-> <<>>]

\* the items a library's "recently added" request returned
ItemsOf(l, fetched) == IF fetched = "items" THEN <<l>> ELSE <<>>

\* _fetch_all_tautulli_data_concurrently, lines 871-879: executor.map hands
\* on the exception of a fetch_for_library call when its result is read
TautulliResult(fetches) ==
    IF \E l \in Libraries : fetches[l] = "failed"
    THEN [raised |-> TRUE, value |-> <<>>]
    ELSE [raised |-> FALSE,
          value |-> [l \in Libraries |->
                        [items |-> ItemsOf(l, fetches[l]), counts |-> {l}]]]

\* _fetch_all_jellystat_data_concurrently, lines 927-950: fetch_for_library
\* answers an exception with an empty list
JellystatResult(fetches) ==
    [raised |-> FALSE,
     value |-> [l \in Libraries |->
                   [items |-> ItemsOf(l, fetches[l]), counts |-> {l}]]]

\* _fetch_all_audiobookshelf_data_concurrently, lines 976-1011:
\* fetch_data_for_library answers an exception with no items and no counts
AudiobookshelfResult(fetches) ==
    [raised |-> FALSE,
     value |-> [l \in Libraries |->
                   IF fetches[l] = "failed"
                   THEN [items |-> <<>>, counts |-> {}]
                   ELSE [items |-> ItemsOf(l, fetches[l]), counts |-> {l}]]]

\* the data fetcher of source_map for the source
FetchAllResult(s, fetches) ==
    CASE s = "tautulli" -> TautulliResult(fetches)
      [] s = "jellystat" -> JellystatResult(fetches)
      [] OTHER -> AudiobookshelfResult(fetches)

\* lines 839-869, 904-925, 970-974: the list of libraries has arrived
FetchAllStart(s) ==
    /\ faPc = "idle"
    /\ fa_source' = s
    /\ faPc' = "libraries"
    /\ UNCHANGED <<lib_fetch, fa_result>>
    /\ UNCHANGED <<coreVars, mapVars, resVars, reqVars>>

\* lines 839-840, 906, 970-971: the request for the list of libraries raised
FetchAllListRaise(s) ==
    /\ faPc = "idle"
    /\ fa_source' = s
    /\ faPc' = "done"
    /\ fa_result' = [raised |-> TRUE, value |-> <<>>]
    /\ UNCHANGED lib_fetch
    /\ UNCHANGED <<coreVars, mapVars, resVars, reqVars>>

\* a library's "recently added" request returns items, returns none, or fails
LibraryFetch(l) ==
    /\ faPc = "libraries"
    /\ lib_fetch[l] = "pending"
    /\ \E fetched \in {"items", "empty", "failed"} :
           lib_fetch' = [lib_fetch EXCEPT ![l] = fetched]
    /\ UNCHANGED <<fa_source, faPc, fa_result>>
    /\ UNCHANGED <<coreVars, mapVars, resVars, reqVars>>

\* every library's request is over: the data fetcher returns or raises
FetchAllReturn ==
    /\ faPc = "libraries"
    /\ \A l \in Libraries : lib_fetch[l] # "pending"
    /\ fa_result' = FetchAllResult(fa_source, lib_fetch)
    /\ faPc' = "done"
    /\ UNCHANGED <<fa_source, lib_fetch>>
    /\ UNCHANGED <<coreVars, mapVars, resVars, reqVars>>

\* app.py lines 173-179: the record _process_audiobookshelf_items hands to
\* apply_mapping, or that building it raised
Flatten(item) ==
    LET media == Get(item, Str("media"), PDict(EmptyDict))
        metadata == IF media.kind = "dict"
                    THEN Get(media.v, Str("metadata"), PDict(EmptyDict))
                    ELSE PNone
    IN  IF media.kind # "dict" \/ metadata.kind # "dict" THEN Raised
        ELSE Returned((Str("genre") :> Get(metadata.v, Str("genres"), PStr(EmptyStr)))
                      @@ metadata.v @@ media.v @@ item)

\* app.py lines 1178-1185 with lines 146-161 and 169-187: the title that
\* get_added computes for one raw item of the source
AddedTitle(mappings, item, src) ==
    CASE src = "tautulli" ->
            apply_mapping(mappings, item, "tautulli",
                          Get(item, <<"media", "_", "type">>, PStr(EmptyStr))).result
      [] src = "jellystat" ->
            apply_mapping(mappings, item, "jellystat",
                          Get(item, Str("Type"), PStr(EmptyStr))).result
      [] OTHER ->
            LET flattened_data == Flatten(item)
            IN  IF flattened_data.raised THEN Raised
                ELSE apply_mapping(mappings, flattened_data.value,
                                   "audiobookshelf", PStr(Str("book"))).result

\* app.py lines 1174-1190: get_added processes the one raw item of a library
GetAddedItem ==
    /\ fn = "get_added"
    /\ results = <<>>
    /\ LET title == AddedTitle(mapping_tree, record, arg_source)
       IN  /\ results' = <<title>>
           /\ processed_items' =
                 IF title.raised THEN <<>>
                 ELSE <<PDict((Str("title") :> title.value)
                              @@ (<<"added", "_", "at">> :> [kind |-> "int", v |-> 0]))>>
    /\ UNCHANGED <<mapping_tree, record, arg_source, arg_media_type,
                   arg_sub_type, fn, looked_up, record0>>
    /\ UNCHANGED <<coreVars, mapVars, faVars, reqVars>>

(* ---------------- app.py: the requests of a data fetcher --------------- *)
PoolInit ==
    /\ pool_source = "tautulli"
    /\ poolPc = "idle"
    /\ list_in_flight = 0
    /\ taken = 0
    /\ in_flight = [l \in 1..PoolLibs |-> 0]

\* the requests for the libraries (and, for Jellystat, their statistics)
\* that the fetcher issues first: lines 839, 904-905, 970
ListRequests(s) == IF s = "jellystat" THEN 2 ELSE 1

\* how many libraries are worked on at a time: the executors of lines 872
\* and 1002, the for loop of lines 941-942
Workers(s) == IF s = "jellystat" THEN 1 ELSE max_workers

\* the requests one library's call issues at once: lines 846 and 931, and
\* the two submits of lines 985-986
RequestsPerLibrary(s) == IF s = "audiobookshelf" THEN 2 ELSE 1

\* the libraries whose call has not returned
Running == {l \in 1..PoolLibs : in_flight[l] > 0}

PoolStart(s) ==
    /\ poolPc = "idle"
    /\ pool_source' = s
    /\ poolPc' = "libraries"
    /\ list_in_flight' = ListRequests(s)
    /\ UNCHANGED <<taken, in_flight>>
    /\ UNCHANGED <<coreVars, baseVars, addedVars, activityVars, editorVars>>

\* a response with the libraries or the statistics arrives
ListReturn ==
    /\ poolPc = "libraries"
    /\ list_in_flight' = list_in_flight - 1
    /\ poolPc' = IF list_in_flight = 1 THEN "items" ELSE poolPc
    /\ UNCHANGED <<pool_source, taken, in_flight>>
    /\ UNCHANGED <<coreVars, baseVars, addedVars, activityVars, editorVars>>

\* the next library of all_libraries is taken by a free worker (by the
\* loop, for Jellystat), which issues the library's requests
WorkerTake ==
    /\ poolPc = "items"
    /\ taken < PoolLibs
    /\ Cardinality(Running) < Workers(pool_source)
    /\ taken' = taken + 1
    /\ in_flight' =
          [in_flight EXCEPT ![taken + 1] = RequestsPerLibrary(pool_source)]
    /\ UNCHANGED <<pool_source, poolPc, list_in_flight>>
    /\ UNCHANGED <<coreVars, baseVars, addedVars, activityVars, editorVars>>

\* a response for library l arrives, or its request fails
RequestReturn(l) ==
    /\ poolPc = "items"
    /\ in_flight[l] > 0
    /\ in_flight' = [in_flight EXCEPT ![l] = @ - 1]
    /\ UNCHANGED <<pool_source, poolPc, list_in_flight, taken>>
    /\ UNCHANGED <<coreVars, baseVars, addedVars, activityVars, editorVars>>

\* every library's call has returned: the fetcher returns
PoolReturn ==
    /\ poolPc = "items"
    /\ taken = PoolLibs
    /\ Running = {}
    /\ poolPc' = "done"
    /\ UNCHANGED <<pool_source, list_in_flight, taken, in_flight>>
    /\ UNCHANGED <<coreVars, baseVars, addedVars, activityVars, editorVars>>

(* --------------------------- app.py: get_added ------------------------- *)
\* no request has arrived; the cache holds an empty snapshot
AddedIdle ==
    /\ a_mappings = EmptyDict
    /\ a_source = "tautulli"
    /\ cached = [l \in LibNames |-> [items |-> <<>>, counts |-> 0]]
    /\ aPc = "idle"
    /\ count = 15
    /\ date_format = ""
    /\ data_copy = "none"
    /\ copied = <<>>
    /\ processed_data = <<>>

\* the raw items of the backends: a Tautulli movie and a Jellystat movie
RawItems ==
    {(<<"media", "_", "type">> :> PStr(Str("movie")))
        @@ (Str("title") :> PStr(Str("Song"))),
     (Str("Type") :> PStr(Str("Movie"))) @@ (Str("Name") :> PStr(Str("Song")))}

\* the snapshots a data fetcher can have stored
Snapshots ==
    LET lists == UNION {[1..n -> RawItems] : n \in 0..MaxItems}
    IN  [LibNames -> [items : lists, counts : {7}]]

\* items[:n]
Slice(items, n) ==
    LET len == Len(items)
        stop == IF n >= 0 THEN (IF n < len THEN n ELSE len)
                ELSE (IF len + n > 0 THEN len + n ELSE 0)
    IN  SubSeq(items, 1, stop)

\* deepcopy(data): the object it returns, given the object data is
deepcopy_SameObject(object) == object
deepcopy(object) == "copy"

\* lines 1178-1185 with 146-161 and 169-187: the raw item as its processing
\* leaves it; apply_mapping writes the custom fields into its argument,
\* which for Audiobookshelf is the flattened dict and not the item
AddedItemAfter(mappings, item, src) ==
    CASE src = "tautulli" ->
            apply_mapping(mappings, item, "tautulli",
                          Get(item, <<"media", "_", "type">>, PStr(EmptyStr))).item
      [] src = "jellystat" ->
            apply_mapping(mappings, item, "jellystat",
                          Get(item, Str("Type"), PStr(EmptyStr))).item
      [] OTHER -> item

\* _format_dates_in_response, lines 199-218, for one processed item: an int
\* added_at becomes the text of the format
FormatDate(item, format) ==
    IF /\ Str("added_at") \in DOMAIN item.v
       /\ item.v[Str("added_at")].kind = "int"
       /\ format \in {"short", "relative"}
    THEN PDict((Str("added_at") :> PStr(Str(format))) @@ item.v)
    ELSE item

\* lines 1154-1170: a request for the cached source arrives; the handler
\* takes the cached object and copies it
AddedCopy(n, format) ==
    /\ aPc = "idle"
    /\ count' = n
    /\ date_format' = format
    /\ data_copy' = deepcopy("cache")
    /\ copied' = IF data_copy' = "copy" THEN cached ELSE copied
    /\ aPc' = "copied"
    /\ UNCHANGED <<a_mappings, a_source, cached, processed_data>>
    /\ UNCHANGED <<coreVars, baseVars, poolVars, activityVars, editorVars>>

\* lines 1173-1190: every library's items are cut to count and processed;
\* the items are the objects of data_copy
AddedProcess ==
    /\ aPc = "copied"
    /\ LET object == IF data_copy = "cache" THEN cached ELSE copied
           raw_items == [l \in LibNames |-> Slice(object[l].items, count)]
           titles == [l \in LibNames |->
                        [i \in 1..Len(raw_items[l]) |->
                            AddedTitle(a_mappings, raw_items[l][i], a_source)]]
           after == [l \in LibNames |->
                       [object[l] EXCEPT !.items =
                           [i \in 1..Len(object[l].items) |->
                               IF i <= Len(raw_items[l])
                               THEN AddedItemAfter(a_mappings, @[i], a_source)
                               ELSE @[i]]]]
       IN  /\ processed_data' =
                 IF \E l \in LibNames : \E i \in 1..Len(raw_items[l]) :
                        titles[l][i].raised
                 THEN Raised
                 ELSE Returned(
                        [l \in LibNames |->
                            [items |->
                                [i \in 1..Len(raw_items[l]) |->
                                    PDict((Str("title") :> titles[l][i].value)
                                          @@ (Str("added_at") :>
                                                [kind |-> "int", v |-> 0]))]]])
           /\ cached' = IF data_copy = "cache" THEN after ELSE cached
           /\ copied' = IF data_copy = "cache" THEN copied ELSE after
    /\ aPc' = "processed"
    /\ UNCHANGED <<a_mappings, a_source, count, date_format, data_copy>>
    /\ UNCHANGED <<coreVars, baseVars, poolVars, activityVars, editorVars>>

\* lines 1192-1195: the dates are formatted in processed_data and the
\* response is sent
AddedRespond ==
    /\ aPc = "processed"
    /\ processed_data' =
          IF processed_data.raised \/ date_format = "" THEN processed_data
          ELSE Returned(
                 [l \in LibNames |->
                     [items |->
                         [i \in 1..Len(processed_data.value[l].items) |->
                             FormatDate(processed_data.value[l].items[i],
                                        date_format)]]])
    /\ aPc' = "sent"
    /\ UNCHANGED <<a_mappings, a_source, cached, count, date_format,
                   data_copy, copied>>
    /\ UNCHANGED <<coreVars, baseVars, poolVars, activityVars, editorVars>>

\* get_counts, lines 1102-1112: the counts of every cached library
CountsRespond ==
    /\ aPc = "idle"
    /\ processed_data' =
          Returned([l \in LibNames |-> [counts |-> cached[l].counts]])
    /\ aPc' = "sent"
    /\ UNCHANGED <<a_mappings, a_source, cached, count, date_format,
                   data_copy, copied>>
    /\ UNCHANGED <<coreVars, baseVars, poolVars, activityVars, editorVars>>

\* the handler's locals are gone
AddedDone ==
    /\ aPc = "sent"
    /\ aPc' = "idle"
    /\ count' = 15
    /\ date_format' = ""
    /\ data_copy' = "none"
    /\ copied' = <<>>
    /\ processed_data' = <<>>
    /\ UNCHANGED <<a_mappings, a_source, cached>>
    /\ UNCHANGED <<coreVars, baseVars, poolVars, activityVars, editorVars>>

(* -------------------------- app.py: get_activity ----------------------- *)
\* no request has arrived
ActivityIdle ==
    /\ act_source = "tautulli"
    /\ sessions = <<>>
    /\ history = <<>>
    /\ actPc = "idle"
    /\ playing_items = <<>>
    /\ last_played_items = <<>>

\* the field with the user's id
UserIdKey(src) ==
    IF src = "tautulli" THEN <<"user", "_", "id">> ELSE Str("UserId")

\* the ids of two users as the backend writes them: Tautulli writes a user's
\* id as a number or as a string, Jellystat as a string
UserIds(src) ==
    IF src = "tautulli"
    THEN {[kind |-> "int", v |-> 1], PStr(Str("1")), PStr(Str("2"))}
    ELSE {PStr(Str("1")), PStr(Str("2"))}

\* the sessions a backend reports: a Jellystat session plays an item or is
\* idle (it has no NowPlayingItem)
SessionRecords(src) ==
    IF src = "tautulli"
    THEN {(UserIdKey(src) :> id) @@ (Str("title") :> PStr(Str("Song")))
             @@ (Str("user") :> PStr(Str("Bob"))) : id \in UserIds(src)}
    ELSE {(UserIdKey(src) :> id) @@ (Str("UserName") :> PStr(Str("Bob")))
             @@ now : id \in UserIds(src),
                      now \in {EmptyDict,
                               Str("NowPlayingItem") :>
                                   PDict(Str("Name") :> PStr(Str("Song")))}}

\* the history items a backend reports
HistoryRecords(src) ==
    IF src = "tautulli"
    THEN {(UserIdKey(src) :> id) @@ (Str("title") :> PStr(Str("Song")))
             @@ (Str("user") :> PStr(Str("Bob"))) : id \in UserIds(src)}
    ELSE {(UserIdKey(src) :> id) @@ (Str("UserName") :> PStr(Str("Bob")))
             @@ (Str("Name") :> PStr(Str("Song"))) : id \in UserIds(src)}

\* str(value)
str(value) ==
    IF value.kind = "int" THEN PStr(Str(ToString(value.v)))
    ELSE PStr(Render(value))

\* the value both loops know a user by: str(item.get('user_id')) for
\* Tautulli (lines 676, 697), item.get('UserId') for Jellystat (lines 584,
\* 611)
UserOf(item, src) ==
    IF src = "tautulli" THEN str(GetOrNone(item, UserIdKey(src)))
    ELSE GetOrNone(item, UserIdKey(src))

\* "user_id not in active_user_ids" (line 698), "item.get('UserId') in
\* active_user_ids" (line 611)
IsActive_Never(user, active_user_ids) == FALSE
IsActive(user, active_user_ids) == user \in active_user_ids

\* lines 584-607 and 675-693: the sessions that get a now-playing entry;
\* Jellystat's idle sessions are skipped
PlayingSessions(list, src) ==
    LET plays(session) ==
            \/ src = "tautulli"
            \/ IsTruthy(GetOrNone(session, Str("NowPlayingItem")))
    IN  SelectSeq(list, plays)

\* lines 610-631 and 695-699: the history items that get a last-played
\* entry: those of users without a now-playing entry and, for Tautulli, only
\* the first item of a user
LastPlayed(list, active_user_ids, src) ==
    LET kept[i \in 0..Len(list)] ==
            IF i = 0 THEN <<>>
            ELSE LET user == UserOf(list[i], src)
                     seen_before ==
                         /\ src = "tautulli"
                         /\ \E k \in 1..Len(kept[i - 1]) :
                                UserOf(kept[i - 1][k], src) = user
                 IN  IF ~IsActive(user, active_user_ids) /\ ~seen_before
                     THEN Append(kept[i - 1], list[i])
                     ELSE kept[i - 1]
    IN  kept[Len(list)]

\* one entry of the response (lines 606-607, 630-631, 692-693, 706-707):
\* the parts that apply_activity_mapping resolved, and, for the properties,
\* the user the entry was made for
ActivityEntry(mappings, item, src, sub_type) ==
    LET full_session_data ==
            IF Str("NowPlayingItem") \in DOMAIN item
            THEN item[Str("NowPlayingItem")].v @@ item
            ELSE item
        formatted_parts ==
            apply_activity_mapping(mappings, full_session_data, src,
                                   sub_type).result
    IN  [raised |-> formatted_parts.raised,
         title |-> Get(formatted_parts.value.v, Str("title"),
                       PStr(<<"Unknown", " ", "Title">>)),
         user |-> Get(formatted_parts.value.v, Str("user"),
                      PStr(<<"Unknown", " ", "User">>)),
         of_user |-> UserOf(item, src)]

\* lines 565-633 and 664-715: the two responses of the backend have arrived
\* and the handler builds its response; mappings is what get_mappings()
\* returns
GetActivity(mappings) ==
    /\ actPc = "idle"
    /\ LET playing == PlayingSessions(sessions, act_source)
           active_user_ids ==
               {UserOf(playing[i], act_source) : i \in 1..Len(playing)}
           last_played == LastPlayed(history, active_user_ids, act_source)
       IN  /\ playing_items' =
                 [i \in 1..Len(playing) |->
                     ActivityEntry(mappings, playing[i], act_source,
                                   Str("activity"))]
           /\ last_played_items' =
                 [i \in 1..Len(last_played) |->
                     ActivityEntry(mappings, last_played[i], act_source,
                                   <<"last", "_", "played", "_", "activity">>)]
    /\ actPc' = "sent"
    /\ UNCHANGED <<act_source, sessions, history>>
    /\ UNCHANGED <<coreVars, baseVars, poolVars, addedVars, editorVars>>

(* ------------------------------ editor.py ------------------------------ *)
ALLOWED_FILES ==
    {"authentication.yaml", "bookmarks.yaml", "custom.js", "custom.css",
     "docker.yaml", "kubernetes.yaml", "proxmox.yaml", "services.yaml",
     "settings.yaml", "widgets.yaml"}

\* the file names of the requests: two of the list, and three that are not
\* on it
FileNames ==
    {"services.yaml", "custom.css", "mappings.yaml", ".env", ".."}

\* no editor request has arrived; no file of the names exists
EditorIdle ==
    /\ config_files = [f \in FileNames |-> "absent"]
    /\ req_filename = ""
    /\ editor_status = 0
    /\ opened = {}

\* "filename not in ALLOWED_FILES", lines 86 and 126
NotAllowed_Never(name) == FALSE
NotAllowed(name) == name \notin ALLOWED_FILES

\* get_file, lines 86-99; the read succeeds or raises
GetFile(name) ==
    /\ req_filename' = name
    /\ IF NotAllowed(name)
       THEN editor_status' = 403 /\ UNCHANGED opened
       ELSE IF config_files[name] = "absent"
       THEN editor_status' = 404 /\ UNCHANGED opened
       ELSE /\ opened' = opened \cup {<<name, "r">>}
            /\ editor_status' \in {200, 500}
    /\ UNCHANGED config_files
    /\ UNCHANGED <<coreVars, baseVars, poolVars, addedVars, activityVars>>

\* save_file, lines 126-141, for a JSON body with or without 'content'; the
\* write succeeds, or open() raises and the file is as it was
SaveFile(name, body) ==
    /\ req_filename' = name
    /\ IF NotAllowed(name)
       THEN editor_status' = 403 /\ UNCHANGED <<opened, config_files>>
       ELSE IF "content" \notin DOMAIN body
       THEN editor_status' = 400 /\ UNCHANGED <<opened, config_files>>
       ELSE /\ opened' = opened \cup {<<name, "w">>}
            /\ \/ /\ config_files' = [config_files EXCEPT ![name] = body.content]
                  /\ editor_status' = 200
               \/ /\ UNCHANGED config_files
                  /\ editor_status' = 500
    /\ UNCHANGED <<coreVars, baseVars, poolVars, addedVars, activityVars>>

(* ----------------------- the models of single requests ---------------- *)
\* no request has been made
RequestsInit == PoolInit /\ AddedIdle /\ ActivityIdle /\ EditorIdle

(* ------------- mapping_manager.py: the inputs of a run ----------------- *)
\* how long the templates are that a run draws
MaxLen == 3
\* how many fields the records have that a run draws
MaxFields == 2

Alphabet == {"{", "}", "[", "]", "a", "b", " ", "-"}

\* the strs of at most n symbols
RECURSIVE Strings(_)
Strings(n) ==
    IF n = 0 THEN {<<>>}
    ELSE LET shorter == Strings(n - 1)
         IN  shorter \cup {Append(s, c) : s \in {x \in shorter : Len(x) = n - 1},
                                          c \in Alphabet}

\* a placeholder {field} and a nested placeholder {field[key]}
Placeholder(field) == <<"{">> \o field \o <<"}">>
Nested(field, key) == <<"{">> \o field \o <<"[">> \o key \o <<"]", "}">>

\* the template strings of a run: every short string, and "{a} - {b}",
\* "{a[b]}" and "{user[name]}"
Templates ==
    Strings(MaxLen)
    \cup {Placeholder(Str("a")) \o <<" ", "-", " ">> \o Placeholder(Str("b")),
          Nested(Str("a"), Str("b")), Nested(Str("user"), Str("name"))}

\* item records for the templates
FormatRecords ==
    { EmptyDict,
      Str("a") :> PStr(Str("X")),
      Str("a") :> PNone,
      (Str("a") :> PStr(Str("X"))) @@ (Str("b") :> PStr(Str("Y"))),
      Str("a") :> PDict(Str("b") :> PStr(Str("Bob"))),
      Str("a") :> PDict(EmptyDict),
      Str("user") :> PDict(Str("name") :> PStr(Str("Bob"))),
      Str("user") :> PNone }

\* a TypeMapping
TypeMapping(templates, custom_fields) ==
    [templates |-> templates, custom_fields |-> custom_fields]

TitleOnly(T) == TypeMapping(Str("title") :> T, <<>>)
TitleAndUser(T, U) == TypeMapping((Str("title") :> T) @@ (Str("user") :> U), <<>>)

\* the keys of the mapping tree
ActivityKey(type) == <<"activity", "_", type>>
LastPlayedKey(type) == <<"last", "_", "played", "_", type>>

\* a mapping tree whose jellystat mappings for movies all have the one
\* template T
TemplateTree(T) ==
    "jellystat" :>
        [recently_added |-> (Str("Movie") :> TitleOnly(T)),
         user_activity |-> (ActivityKey("Movie") :> TitleOnly(T))]

\* the inputs of a run that formats a template
InitFormat ==
    /\ CacheInit(MaxEvents) /\ MappingsInit /\ FetchAllInit
    /\ RequestsInit
    /\ \E T \in Templates : mapping_tree = TemplateTree(T)
    /\ record \in FormatRecords
    /\ record0 = record
    /\ arg_source = "jellystat"
    /\ arg_media_type = PStr(Str("Movie"))
    /\ arg_sub_type = Str("activity")
    /\ fn \in {"apply_mapping", "apply_activity_mapping"}
    /\ results = <<>>
    /\ processed_items = <<>>
    /\ looked_up = EmptyStr

\* a part of get_default_mappings() (lines 18-172)
DefaultTree ==
    ("tautulli" :>
        [recently_added |-> (Str("movie") :> TitleOnly(Placeholder(Str("title")))),
         user_activity |->
            (ActivityKey("movie") :>
                TitleAndUser(Placeholder(Str("title")), Placeholder(Str("user"))))
            @@ (LastPlayedKey("movie") :>
                TitleAndUser(Placeholder(Str("title")), Placeholder(Str("user"))))])
    @@ ("jellystat" :>
        [recently_added |-> (Str("Movie") :> TitleOnly(Placeholder(Str("Name")))),
         user_activity |->
            (ActivityKey("Movie") :>
                TitleAndUser(Placeholder(Str("Name")), Placeholder(Str("UserName"))))
            @@ (ActivityKey("Episode") :>
                TitleAndUser(Placeholder(Str("SeriesName")) \o <<" ", "-", " ">>
                                 \o Placeholder(Str("Name")),
                             Placeholder(Str("UserName"))))
            @@ (LastPlayedKey("Movie") :>
                TitleAndUser(Placeholder(Str("LastWatched")), Placeholder(Str("UserName"))))
            @@ (LastPlayedKey("Episode") :>
                TitleAndUser(Placeholder(Str("LastWatched")), Placeholder(Str("UserName"))))])

\* a tree the editor saved: custom fields, and a mapping without templates
CustomTree ==
    ("tautulli" :>
        [recently_added |->
            (Str("movie") :>
                TypeMapping(Str("title") :> Placeholder(Str("title")),
                            <<[name |-> Str("title"), value |-> PStr(Str("Bob"))]>>)),
         user_activity |->
            (ActivityKey("movie") :> [custom_fields |-> <<>>])])
    @@ ("jellystat" :>
        [recently_added |-> (Str("Movie") :> TitleOnly(Placeholder(Str("Name")))),
         user_activity |->
            (ActivityKey("Movie") :>
                TypeMapping((Str("title") :> Placeholder(Str("Name")))
                                @@ (Str("user") :> Placeholder(Str("UserName"))),
                            <<[name |-> Str("Type"), value |-> PStr(Str("Episode"))]>>))
            @@ (ActivityKey("Episode") :>
                TitleAndUser(Placeholder(Str("SeriesName")), Placeholder(Str("UserName"))))])

MappingTrees == {EmptyDict, DefaultTree, CustomTree}

\* the claimed example of an activity record
SongOfBob == (Str("Name") :> PStr(Str("Song"))) @@ (Str("UserName") :> PStr(Str("Bob")))

\* item records with at most MaxFields of the fields that the selection and
\* the fallbacks read
SelectRecords ==
    LET FieldNames ==
            {<<"media", "_", "type">>, Str("Type"), Str("SeriesName"),
             Str("title"), Str("name"), Str("Name"), Str("LastWatched"),
             Str("UserName"), Str("user")}
        FieldValues ==
            {PNone, PStr(EmptyStr), PStr(Str("Movie")), PStr(Str("movie")),
             PStr(Str("Bob"))}
    IN  UNION {[D -> FieldValues] :
                  D \in {E \in SUBSET FieldNames : Cardinality(E) <= MaxFields}}
        \cup {SongOfBob}

\* the inputs of a run that selects a TypeMapping for a record
InitSelect ==
    /\ CacheInit(MaxEvents) /\ MappingsInit /\ FetchAllInit
    /\ RequestsInit
    /\ mapping_tree \in MappingTrees
    /\ record \in SelectRecords
    /\ record0 = record
    /\ \/ /\ fn = "apply_mapping"
          /\ arg_source \in {"tautulli", "jellystat"}
          /\ arg_media_type \in
                {PStr(Str("Movie")), PStr(Str("movie")), PStr(EmptyStr)}
          /\ arg_sub_type = Str("activity")
       \/ /\ fn = "apply_activity_mapping"
          /\ arg_source \in {"tautulli", "jellystat"}
          /\ arg_media_type = PStr(EmptyStr)
          /\ arg_sub_type \in {Str("activity"), <<"last", "_", "played", "_", "activity">>}
       \/ /\ fn = "get_added"
          /\ arg_source \in source_map
          /\ arg_media_type = PStr(EmptyStr)
          /\ arg_sub_type = Str("activity")
    /\ results = <<>>
    /\ processed_items = <<>>
    /\ looked_up = EmptyStr

(* ------------- mapping_manager.py: get_mappings, save_mappings --------- *)
\* lines 179-180: a thread of process p calls get_mappings and takes the
\* process's _mappings_lock
GetMappingsCall(p) ==
    /\ gPc[p] = "idle"
    /\ gPc' = [gPc EXCEPT ![p] = "signal"]
    /\ seen' = [seen EXCEPT ![p] = saved]
    /\ UNCHANGED <<mappings_file, signal_file, mappings_cache, gRet, sPc, saved>>
    /\ UNCHANGED <<coreVars, resVars, faVars, reqVars>>

\* lines 183-184: os.path.exists(UPDATE_SIGNAL_FILE); if so drop the cache
GetMappingsSignal(p) ==
    /\ gPc[p] = "signal"
    /\ IF signal_file
       THEN /\ mappings_cache' = [mappings_cache EXCEPT ![p] = NoMappings]
            /\ gPc' = [gPc EXCEPT ![p] = "remove"]
       ELSE /\ gPc' = [gPc EXCEPT ![p] = "cached"]
            /\ UNCHANGED mappings_cache
    /\ UNCHANGED <<mappings_file, signal_file, gRet, sPc, saved, seen>>
    /\ UNCHANGED <<coreVars, resVars, faVars, reqVars>>

\* lines 185-189: os.remove(UPDATE_SIGNAL_FILE); an OSError (the file is
\* gone already) is logged
GetMappingsRemove(p) ==
    /\ gPc[p] = "remove"
    /\ signal_file' = FALSE
    /\ gPc' = [gPc EXCEPT ![p] = "cached"]
    /\ UNCHANGED <<mappings_file, mappings_cache, gRet, sPc, saved, seen>>
    /\ UNCHANGED <<coreVars, resVars, faVars, reqVars>>

\* lines 192-193: a populated cache is returned
GetMappingsCached(p) ==
    /\ gPc[p] = "cached"
    /\ IF mappings_cache[p] # NoMappings
       THEN /\ gRet' = [gRet EXCEPT ![p] = mappings_cache[p]]
            /\ gPc' = [gPc EXCEPT ![p] = "return"]
       ELSE /\ gPc' = [gPc EXCEPT ![p] = "load"]
            /\ UNCHANGED gRet
    /\ UNCHANGED <<mappings_file, signal_file, mappings_cache, sPc, saved, seen>>
    /\ UNCHANGED <<coreVars, resVars, faVars, reqVars>>

\* lines 195-205: load mappings.yaml, or the defaults if there is no file
GetMappingsLoad(p) ==
    /\ gPc[p] = "load"
    /\ mappings_cache' = [mappings_cache EXCEPT ![p] = mappings_file]
    /\ gRet' = [gRet EXCEPT ![p] = mappings_file]
    /\ gPc' = [gPc EXCEPT ![p] = "return"]
    /\ UNCHANGED <<mappings_file, signal_file, sPc, saved, seen>>
    /\ UNCHANGED <<coreVars, resVars, faVars, reqVars>>

\* the caller has the returned mappings; the lock is free again
GetMappingsReturn(p) ==
    /\ gPc[p] = "return"
    /\ gPc' = [gPc EXCEPT ![p] = "idle"]
    /\ UNCHANGED <<mappings_file, signal_file, mappings_cache, gRet, sPc,
                   saved, seen>>
    /\ UNCHANGED <<coreVars, resVars, faVars, reqVars>>

\* lines 213-214: the data is dumped to mappings.yaml
SaveMappingsWrite ==
    /\ sPc = "idle"
    /\ saved < MaxSaves
    /\ mappings_file' = saved + 1
    /\ sPc' = "written"
    /\ UNCHANGED <<signal_file, mappings_cache, gPc, gRet, saved, seen>>
    /\ UNCHANGED <<coreVars, resVars, faVars, reqVars>>

\* lines 216-220: the signal file is created; return True
SaveMappingsSignal ==
    /\ sPc = "written"
    /\ signal_file' = TRUE
    /\ saved' = saved + 1
    /\ sPc' = "idle"
    /\ UNCHANGED <<mappings_file, mappings_cache, gPc, gRet, seen>>
    /\ UNCHANGED <<coreVars, resVars, faVars, reqVars>>

(* ------------------------- specifications ------------------------------ *)
\* the state after the modules have been imported
Init ==
    /\ CacheInit(MaxEvents) /\ MappingsInit /\ ResolveIdle /\ FetchAllInit
    /\ RequestsInit

Env == \E s \in Sources : ChangeLib(s)

Prime ==
    \/ PrimeStart
    \/ \E s \in Sources : WorkerDataOK(s)
    \/ \E s \in Sources : WorkerDataRaise(s)
    \/ \E s \in Sources : WorkerStateReturn(s)
    \/ PrimeJoin
    \/ PrimeFinal

Loop ==
    \/ \E l \in LoopIds : LoopPoll(l)
    \/ \E l \in LoopIds : LoopStateReturn(l)
    \/ \E l \in LoopIds : LoopDataOK(l)
    \/ \E l \in LoopIds : LoopDataRaise(l)
    \/ \E l \in LoopIds : LoopStore(l)
    \/ \E l \in LoopIds : LoopStamp(l)

Hook ==
    \/ HookResetData
    \/ HookResetStamps
    \/ HookFetch
    \/ HookSkip
    \/ HookDataOK
    \/ HookDataRaise
    \/ HookStateReturn
    \/ HookStore
    \/ HookStamp
    \/ HookDone

Requests ==
    \/ \E src \in Sources : ReaderLock(src)
    \/ ReaderRead
    \/ GetCountsRespond
    \/ GetAddedRespond
    \/ ReaderDone

\* the server process started by importing app alone: the refresh loops and
\* the request handlers are threads of one process
Next == Env \/ Prime \/ Serve \/ Loop \/ Requests

Spec == Init /\ [][Next]_vars

\* the same server process, with requests for any source
ApiRequests ==
    \/ ReaderNoSource
    \/ \E src \in SourceParams \ {""} : ReaderLock(src)
    \/ ReaderRead
    \/ GetCountsRespond
    \/ GetAddedRespond
    \/ ReaderDone

NextApi == Env \/ Prime \/ Serve \/ Loop \/ ApiRequests

SpecApi == Init /\ [][NextApi]_vars

\* the same server process, in which the caches are refreshed by hand with
\* prime_and_start_cache_threads(is_refresh=True); the call ends with the
\* steps PrimeJoin and PrimeFinal
Refresh ==
    \/ RefreshStart
    \/ \E s \in Sources : RefreshDataOK(s)
    \/ \E s \in Sources : RefreshDataRaise(s)

NextRefresh == Env \/ Prime \/ Serve \/ Loop \/ Refresh

SpecRefresh == Init /\ [][NextRefresh]_vars

\* gunicorn's master process: on_starting imports app, which primes and
\* starts the loops, and then primes again; it handles no requests
NextGunicorn == Env \/ Prime \/ Loop \/ Hook

SpecGunicorn == Init /\ [][NextGunicorn]_vars

\* the same server process without its request handlers, in a run with one
\* more environment event: a change, a failed refresh, then another change
InitRetry ==
    /\ CacheInit(MaxEvents + 1) /\ MappingsInit /\ ResolveIdle /\ FetchAllInit
    /\ RequestsInit

NextRetry == Env \/ Prime \/ Serve \/ Loop

SpecRetry == InitRetry /\ [][NextRetry]_vars

\* the processes that share the config directory: each calls get_mappings
\* again and again, and the editor saves the mappings
NextMappings ==
    \/ \E p \in Procs : GetMappingsCall(p)
    \/ \E p \in Procs : GetMappingsSignal(p)
    \/ \E p \in Procs : GetMappingsRemove(p)
    \/ \E p \in Procs : GetMappingsCached(p)
    \/ \E p \in Procs : GetMappingsLoad(p)
    \/ \E p \in Procs : GetMappingsReturn(p)
    \/ SaveMappingsWrite
    \/ SaveMappingsSignal

SpecMappings == Init /\ [][NextMappings]_vars

\* a record is resolved, MaxCalls times in a row
NextResolve == CallApplyMapping \/ CallApplyActivityMapping

SpecFormat == InitFormat /\ [][NextResolve]_vars

\* a record is resolved, or processed by get_added
NextSelect == CallApplyMapping \/ CallApplyActivityMapping \/ GetAddedItem

SpecSelect == InitSelect /\ [][NextSelect]_vars

\* a data fetcher of source_map runs once
NextFetchAll ==
    \/ \E s \in source_map : FetchAllStart(s)
    \/ \E s \in source_map : FetchAllListRaise(s)
    \/ \E l \in Libraries : LibraryFetch(l)
    \/ FetchAllReturn

SpecFetchAll == Init /\ [][NextFetchAll]_vars

\* a data fetcher of source_map runs once against a backend with PoolLibs
\* libraries
NextPool ==
    \/ \E s \in source_map : PoolStart(s)
    \/ ListReturn
    \/ WorkerTake
    \/ \E l \in 1..PoolLibs : RequestReturn(l)
    \/ PoolReturn

SpecPool == Init /\ [][NextPool]_vars

\* a server whose cache holds a snapshot of the source answers requests
\* for it, one after the other
InitAdded ==
    /\ CacheInit(MaxEvents) /\ MappingsInit /\ ResolveIdle /\ FetchAllInit
    /\ PoolInit /\ ActivityIdle /\ EditorIdle
    /\ a_mappings \in {DefaultTree, CustomTree}
    /\ a_source \in source_map
    /\ cached \in Snapshots
    /\ aPc = "idle"
    /\ count = 15
    /\ date_format = ""
    /\ data_copy = "none"
    /\ copied = <<>>
    /\ processed_data = <<>>

NextAdded ==
    \/ \E n \in (0 - MaxCount)..MaxCount :
          \E format \in {"", "short", "relative"} : AddedCopy(n, format)
    \/ AddedProcess
    \/ AddedRespond
    \/ CountsRespond
    \/ AddedDone

SpecAdded == InitAdded /\ [][NextAdded]_vars

\* a request for the activity of a source whose backend reports some
\* sessions and some history
InitActivity ==
    /\ CacheInit(MaxEvents) /\ MappingsInit /\ ResolveIdle /\ FetchAllInit
    /\ PoolInit /\ AddedIdle /\ EditorIdle
    /\ act_source \in {"tautulli", "jellystat"}
    /\ sessions \in UNION {[1..n -> SessionRecords(act_source)] :
                               n \in 0..MaxSessions}
    /\ history \in UNION {[1..n -> HistoryRecords(act_source)] :
                              n \in 0..MaxSessions}
    /\ actPc = "idle"
    /\ playing_items = <<>>
    /\ last_played_items = <<>>

SpecActivity == InitActivity /\ [][GetActivity(DefaultTree)]_vars

\* the editor's requests for files, and its saves of the mappings, on a
\* config directory that has some of the files
InitEditor ==
    /\ CacheInit(MaxEvents) /\ MappingsInit /\ ResolveIdle /\ FetchAllInit
    /\ PoolInit /\ AddedIdle /\ ActivityIdle
    /\ config_files \in [FileNames -> {"absent", "old"}]
    /\ req_filename = ""
    /\ editor_status = 0
    /\ opened = {}

NextEditor ==
    \/ \E name \in FileNames : GetFile(name)
    \/ \E name \in FileNames :
          \E body \in {<<>>, [content |-> "new"]} : SaveFile(name, body)
    \/ SaveMappingsWrite
    \/ SaveMappingsSignal

SpecEditor == InitEditor /\ [][NextEditor]_vars

(* ------------------------------ properties ----------------------------- *)
\* the polls, primings and hook steps that have a network call for source s
\* outstanding
Outstanding(s) ==
    {LoopThread(l) : l \in {k \in LoopIds : SourceOf(k) = s
                                          /\ lPc[k] \in {"state", "data"}}}
    \cup (IF wPc[s] \in {"data", "state"} THEN {<<"worker", "app", s>>} ELSE {})
    \cup (IF mainPc \in {"hdata", "hstate"} /\ configured_sources[hIdx] = s
          THEN {Main} ELSE {})

\* the thread has a network call outstanding
InNetworkCall(thread) ==
    \/ \E l \in LoopIds : thread = LoopThread(l) /\ lPc[l] \in {"state", "data"}
    \/ thread = Main /\ mainPc \in {"hdata", "hstate"}

\* the poll the loop is in has called the data fetcher
FetchedInThisPoll(l) == lPc[l] \in {"data", "lock", "stamp"}

\* C1: the snapshot a request handler works on is one whole result of the
\* data fetcher of its source (or none): its items and its counts come from
\* the same call, whatever refresh runs at the same time.
C1_ReaderSeesWholeSnapshot ==
    rPc = "got" =>
        /\ rData.items = rData.counts
        /\ \E n \in 0..fetchCount[rSource] : rData = Snap(n)

\* C1 witness: a handler works on the snapshot stored before a refresh that
\* has meanwhile stored another one.
C1_Witness ==
    /\ rPc = "got"
    /\ rData # NoSnap
    /\ cacheData[rSource] # NoSnap
    /\ cacheData[rSource] # rData

\* C2 as stated: a poll whose state fetch returns the value the poll before
\* it got never calls the data fetcher, whatever the first poll did.
C2_NoFetchOnRepeatedState ==
    \A l \in LoopIds : repeated[l] => ~FetchedInThisPoll(l)

\* C2 amended: a poll whose state fetch returns the value the poll before it
\* got calls the data fetcher only if the data fetcher raised in that
\* earlier poll.
C2_NoFetchOnRepeatedStateUnlessFailed ==
    \A l \in LoopIds :
        (repeated[l] /\ FetchedInThisPoll(l)) => outcome[l] = "failed"

\* C2 witness: the second of two polls that fetched the same signature has
\* ended without a call of the data fetcher.
C2_Witness ==
    \E l \in LoopIds :
        /\ lPc[l] = "sleep"
        /\ repeated[l]
        /\ current_state[l] \in Sigs
        /\ outcome[l] = "skip"
        /\ refreshed[SourceOf(l)] # 0

\* C3: a poll of a loop that knows a signature, ended without calling the
\* data fetcher, either failed to fetch the state or fetched the last-known
\* signature; that is, every
\* signature that differs from the last-known one, the empty mapping
\* included, makes the poll call the data fetcher.
C3_ChangedStateIsFetched ==
    \A l \in LoopIds :
        (lPc[l] \in {"sleep", "state"} /\ outcome[l] = "skip"
                                        /\ last_state[l] \in Sigs) =>
            (current_state[l] = None \/ current_state[l] = last_state[l])

\* C4: once a loop has completed a refresh of a source, a request handler
\* that reads the source gets the snapshot of the latest completed refresh.
C4_ReadsSeeCompletedRefresh ==
    (rPc = "locked" /\ refreshed[rSource] # 0) =>
        cacheData[rSource] = Snap(refreshed[rSource])

\* C5: the steps of a poll in which the state fetch fails or the data
\* fetcher raises leave the cached data, the timestamps and the loop's
\* last_state as they are, and the failing step puts the loop back to sleep.
C5_FailedPollChangesNothing ==
    [][\A l \in LoopIds :
          LET stateFailed == /\ lPc[l] = "state"
                             /\ lPc'[l] # "state"
                             /\ current_state'[l] = None
              dataRaised == lPc[l] = "data" /\ lPc'[l] \notin {"data", "lock"}
              stepBeforeStore == /\ lPc[l] \in {"sleep", "state", "data"}
                                 /\ lPc'[l] # lPc[l]
          IN  /\ stepBeforeStore =>
                    /\ cacheData' = cacheData
                    /\ cacheTs' = cacheTs
                    /\ last_state'[l] = last_state[l]
              /\ (stateFailed \/ dataRaised) => lPc'[l] = "sleep"]_vars

\* C5 witness: a data fetcher has raised in a poll of a loop that sleeps
\* again, its source still cached.
C5_Witness ==
    \E l \in LoopIds :
        /\ lPc[l] = "sleep"
        /\ outcome[l] = "failed"
        /\ cacheData[SourceOf(l)] # NoSnap
        /\ current_state[l] # last_state[l]

\* C6: no source ever has two network calls outstanding.
C6_OneFetchPerSource ==
    \A s \in Sources : Cardinality(Outstanding(s)) <= 1

\* the scenario of C7: no call failed, and the only change of a backend came
\* after the start-up and took source s to {lib1: 11}
ChangedOnce(s) ==
    /\ failures = 0
    /\ changes = 1
    /\ lateChange
    /\ libState[s] = Sig11

\* every running loop of source s has finished a poll that saw {lib1: 11}
Settled(s) ==
    /\ \E l \in LoopIds : SourceOf(l) = s /\ lPc[l] # "idle"
    /\ \A l \in LoopIds :
           (SourceOf(l) = s /\ lPc[l] # "idle") =>
               (lPc[l] = "sleep" /\ current_state[l] = Sig11)

\* C7: one change of the state of a primed source makes the loops call the
\* data fetcher exactly once, and the cache gets the result of that call.
C7_ExactlyOneFetchAll ==
    \A s \in Sources :
        ChangedOnce(s) =>
            /\ refreshCalls[s] <= 1
            /\ Settled(s) =>
                   /\ refreshCalls[s] = 1
                   /\ cacheData[s] = Snap(fetchCount[s])

\* C8: no read or write of the cache happens without the lock while another
\* thread can access the cache.
C8_EveryAccessLocked == ~unlockedAccess

\* C9: the lock is never held by a thread that has a network call
\* outstanding; whoever holds it is at the assignment of a fetched snapshot
\* or at the read of the cached one.
C9_LockNeverHeldAcrossIO ==
    /\ ~InNetworkCall(lockHolder)
    /\ lockHolder = Main => mainPc = "final"
    /\ \A l \in LoopIds : lockHolder = LoopThread(l) => lPc[l] = "stamp"
    /\ lockHolder = Reader => rPc = "locked"

\* C9 witness: a loop holds the lock for its assignment while a network call
\* of another thread is in progress.
C9_Witness ==
    \E l \in LoopIds :
        /\ lockHolder = LoopThread(l)
        /\ \E k \in LoopIds : k # l /\ InNetworkCall(LoopThread(k))

C11_FailedRefreshIsRetried ==
    [][\A l \in LoopIds :
          (/\ lPc[l] = "state"
           /\ lPc'[l] # "state"
           /\ outcome[l] = "failed"
           /\ current_state'[l] \in Sigs
           /\ current_state'[l] # last_state[l])
          => lPc'[l] = "data"]_vars

\* C12: a get_mappings call that begins after a save_mappings call has
\* returned True returns the data of that save or of a later one, in every
\* process that shares the config directory
C12_EveryProcessReloads ==
    \A p \in Procs : gPc[p] = "return" => gRet[p] >= seen[p]

\* the template of a run that formats a template
TemplateOfRun ==
    mapping_tree["jellystat"].recently_added[Str("Movie")].templates[Str("title")]

\* C13: the resolution of a template never raises, whatever the template
\* and the record are (here for the templates without a bracket accessor)
C13_ResolutionNeverRaises ==
    Find(TemplateOfRun, "[", 1) > Len(TemplateOfRun)
    => \A i \in 1..Len(results) : ~results[i].raised

\* what the record holds under field and then key, as a str, or the empty
\* str if a segment is absent or is no nested container
NestedValue(R, field, key) ==
    IF field \in DOMAIN R /\ R[field].kind = "dict" /\ key \in DOMAIN R[field].v
    THEN Render(R[field].v[key])
    ELSE EmptyStr

\* C14: the template {a[b]} resolves to str(R["a"]["b"]) when both segments
\* exist, and to the empty str, without raising, when R["a"] is absent, is
\* None or is no nested container
C14_NestedLookup ==
    \A names \in {<<Str("a"), Str("b")>>, <<Str("user"), Str("name")>>} :
        (TemplateOfRun = Nested(names[1], names[2]) /\ results # <<>>)
        => /\ ~results[1].raised
           /\ results[1].value.v[Str("title")] =
                 PStr(strip(NestedValue(record0, names[1], names[2])))

\* C15: two calls in a row with the same record, source and type return
\* equal outputs
C15_Idempotent ==
    Len(results) = MaxCalls => results[1] = results[2]

\* the field of the record, None if it is absent
Field(R, name) == GetOrNone(R, name)

\* C16: with no TypeMapping for (source, 'recently_added', media_type),
\* apply_mapping returns {title: record.title or record.name or
\* "Unknown Title"}
C16_FallbackTitle ==
    (/\ fn = "apply_mapping"
     /\ results # <<>>
     /\ DOMAIN Lookup(Branch(Branch(mapping_tree, arg_source), "recently_added"),
                      arg_media_type) = {})
    => /\ ~results[1].raised
       /\ results[1].value =
             PDict(Str("title") :> Or(Or(Field(record0, Str("title")), Field(record0, Str("name"))),
                                 PStr(<<"Unknown", " ", "Title">>)))

\* the record's explicit type: media_type if that is non-empty, else Type
ExplicitType(R) ==
    IF IsTruthy(Field(R, <<"media", "_", "type">>)) THEN Field(R, <<"media", "_", "type">>)
    ELSE Field(R, Str("Type"))

\* the type inferred from the series name
InferredType(R) ==
    IF IsTruthy(Field(R, Str("SeriesName"))) THEN Str("Episode") ELSE Str("Movie")

\* activity_<type> for now-playing items, last_played_<type> for history
CompositeKey(sub, type) ==
    IF sub = Str("activity") THEN <<"activity", "_">> \o type
    ELSE <<"last", "_", "played", "_">> \o type

\* C17 as claimed: the key is built from the record's explicit type, or,
\* when the record has none, from 'Episode' if a series name is present and
\* 'Movie' otherwise, for every source
C17_KeyInferredForEverySource ==
    (fn = "apply_activity_mapping" /\ Len(results) = 1)
    => looked_up =
          CompositeKey(arg_sub_type,
                       IF IsTruthy(ExplicitType(record0))
                       THEN Render(ExplicitType(record0))
                       ELSE InferredType(record0))

\* C17: the key is built from the record's explicit type; when the record
\* has none, from 'Episode' or 'Movie' if the source is jellystat, and from
\* str() of the Type field's value ('None' for an absent field) for any
\* other source
C17_KeyInferredForJellystat ==
    (fn = "apply_activity_mapping" /\ Len(results) = 1)
    => looked_up =
          CompositeKey(arg_sub_type,
                       IF IsTruthy(ExplicitType(record0))
                       THEN Render(ExplicitType(record0))
                       ELSE IF arg_source = "jellystat"
                       THEN InferredType(record0)
                       ELSE Render(Field(record0, Str("Type"))))

\* a jellystat history record without a type and with a series name has
\* been looked up under last_played_Episode
C17_Witness ==
    /\ fn = "apply_activity_mapping"
    /\ Len(results) = 1
    /\ arg_source = "jellystat"
    /\ arg_sub_type = <<"last", "_", "played", "_", "activity">>
    /\ ~IsTruthy(ExplicitType(record0))
    /\ IsTruthy(Field(record0, Str("SeriesName")))
    /\ looked_up = LastPlayedKey("Episode")

\* C18: when no TypeMapping matches an activity record,
\* apply_activity_mapping returns {title: record.LastWatched or record.Name
\* or record.title or "", user: record.UserName or record.user or ""}
C18_ActivityFallback ==
    (/\ fn = "apply_activity_mapping"
     /\ Len(results) = 1
     /\ NoTemplates(Lookup(Branch(Branch(mapping_tree, arg_source),
                                  "user_activity"), PStr(looked_up))))
    => /\ ~results[1].raised
       /\ results[1].value =
             PDict((Str("title") :> Or(Or(Or(Field(record0, Str("LastWatched")),
                                        Field(record0, Str("Name"))),
                                     Field(record0, Str("title"))),
                                  PStr(EmptyStr)))
                   @@ (Str("user") :> Or(Or(Field(record0, Str("UserName")),
                                       Field(record0, Str("user"))),
                                    PStr(EmptyStr))))

\* C19: the title of every item that get_added returns is a str
C19_AddedTitleIsString ==
    \A i \in 1..Len(processed_items) :
        processed_items[i].v[Str("title")].kind = "str"

\* C20: when the list of libraries has arrived, the data fetcher of every
\* source returns a result that holds every library, with the items of the
\* libraries whose "recently added" request succeeded and an empty list for
\* the libraries whose request failed
C20_LibraryFailureIsIsolated ==
    (faPc = "done" /\ \E l \in Libraries : lib_fetch[l] # "pending")
    => /\ ~fa_result.raised
       /\ \A l \in Libraries :
              fa_result.value[l].items = ItemsOf(l, lib_fetch[l])

\* the requests of the running data fetcher that are in flight
InFlight == list_in_flight + SumOver(in_flight, 1..PoolLibs)

\* C21: during one fetch_all of any source at most 10 requests are in flight
\* at the same time, and Jellystat's per-library "recently added" requests
\* are strictly sequential: at most one of them is in flight
C21_BoundedConcurrency ==
    /\ InFlight <= 10
    /\ pool_source = "jellystat" => SumOver(in_flight, 1..PoolLibs) <= 1

\* C22: get_counts and get_added answer a request whose source is missing or
\* not configured with a 4xx status, and answer 503 only for a configured
\* source that has no snapshot in the cache
C22_ClientErrorForBadSource ==
    rPc = "sent" =>
        /\ rSource \notin Sources => response.status \in 400..499
        /\ response.status = 503 =>
              rSource \in Sources /\ cacheData[rSource] = NoSnap

\* the statuses the two handlers answer with while the cache is as lines
\* 1252-1253 leave it: the priming of the source has not completed
NotPrimedStatuses(src) ==
    {CountsAnswer(CacheGet(EmptyData, src)).status,
     AddedAnswer(CacheGet(EmptyData, src)).status}

\* C23: the status of a cache read for a source whose priming failed, and
\* will never be tried again, differs from the status for a source whose
\* priming has not completed yet
C23_FailedDiffersFromNotReady ==
    (rPc = "sent" /\ rSource \in Sources /\ primeRaised[rSource]) =>
        response.status \notin NotPrimedStatuses(rSource)

\* C24: for every integer count, zero and negative values included, and
\* every library, get_added returns at most count items of the library
C24_AtMostCountItems ==
    (aPc \in {"processed", "sent"} /\ data_copy # "none"
     /\ ~processed_data.raised) =>
        \A l \in LibNames : Len(processed_data.value[l].items) <= count

\* C28: read requests never change the cache: no step of get_counts or
\* get_added changes the cached snapshot, also when the mapping writes custom
\* fields into the records or the dates are formatted
C28_ReadsLeaveCacheAlone == [][cached' = cached]_vars

\* C28, witness: get_added has answered a request whose mapping wrote custom
\* fields into the items and whose dates were formatted
C28_Witness ==
    /\ aPc = "sent"
    /\ data_copy = "copy"
    /\ copied # cached
    /\ date_format # ""
    /\ ~processed_data.raised

\* C25: a loop's last-known signature changes only when its thread is
\* started with the priming signature, or at the end of an iteration that
\* replaced the cached snapshot; it then becomes the signature the iteration
\* observed before the data fetch that produced this snapshot
C25_SignatureFollowsSnapshot ==
    [][\A l \in LoopIds :
          last_state'[l] # last_state[l] =>
              \/ lPc[l] = "idle"
              \/ /\ lPc[l] = "stamp"
                 /\ cacheData[SourceOf(l)] = Snap(data[l])
                 /\ last_state'[l] = current_state[l]]_vars

\* C25, witness: a loop has replaced the snapshot and recorded the changed
\* signature
C25_Witness ==
    \E l \in LoopIds :
        /\ lPc[l] = "sleep"
        /\ outcome[l] = "refreshed"
        /\ last_state[l] = Sig11
        /\ cacheData[SourceOf(l)] = Snap(refreshed[SourceOf(l)])

\* C26: after the complete start-up under gunicorn (the import of app, then
\* on_starting) every configured cacheable source whose fetches succeeded,
\* audiobookshelf included, has a snapshot in the cache; the runs looked at
\* are those in which no request to a backend failed
C26_SnapshotAfterStartup ==
    (mainPc = "serving" /\ hIdx > Len(configured_sources) /\ failures = 0) =>
        \A s \in cacheable_sources : cacheData[s] # NoSnap

\* C27: a manual refresh never loses a snapshot: a source that has a
\* snapshot when the call stores its result (lines 1246-1248) still has one
\* afterwards, also when its data fetcher failed during the refresh
C27_RefreshKeepsSnapshots ==
    [][\A s \in Sources :
          (mainPc = "final" /\ cacheData[s] # NoSnap) =>
              cacheData'[s] # NoSnap]_vars

\* the response is a successful one
ActivityAnswered ==
    /\ actPc = "sent"
    /\ \A i \in 1..Len(playing_items) : ~playing_items[i].raised
    /\ \A i \in 1..Len(last_played_items) : ~last_played_items[i].raised

\* C29: in a successful response of get_activity no user who has a
\* now-playing entry also has a last-played entry
C29_ActiveUsersHaveNoLastPlayed ==
    ActivityAnswered =>
        \A i \in 1..Len(playing_items) : \A j \in 1..Len(last_played_items) :
            playing_items[i].of_user # last_played_items[j].of_user

\* C29, witness: a user with a session and a history item has a now-playing
\* entry, and another user has a last-played entry
C29_Witness ==
    /\ ActivityAnswered
    /\ \E i \in 1..Len(sessions) : \E j \in 1..Len(history) :
          UserOf(sessions[i], act_source) = UserOf(history[j], act_source)
    /\ playing_items # <<>>
    /\ last_played_items # <<>>

\* C30: get_file and save_file answer a file name that is not in
\* ALLOWED_FILES with 403 and open no file for it: no file outside the list
\* is ever read or written by them, and no such file gets a request's content
C30_OnlyAllowedFilesTouched ==
    /\ \A o \in opened : o[1] \in ALLOWED_FILES
    /\ \A f \in FileNames \ ALLOWED_FILES : config_files[f] # "new"
    /\ (editor_status # 0 /\ req_filename \notin ALLOWED_FILES) =>
          editor_status = 403

\* C30, witness: an allowed file has been written and read, and a request
\* for a file outside the list has been refused
C30_Witness ==
    /\ <<"services.yaml", "w">> \in opened
    /\ <<"services.yaml", "r">> \in opened
    /\ config_files["services.yaml"] = "new"
    /\ req_filename = "mappings.yaml"
    /\ editor_status = 403
    /\ config_files["mappings.yaml"] = "old"
    /\ saved > 0

====
